---- MODULE Spec2Model ----
(***************************************************************************)
(* A model of the santamon detection pipeline: the process-lineage cache,  *)
(* the correlation window manager, the baseline (first-seen) processor,    *)
(* the signal generator, the shipper and the spool watcher.                *)
(*                                                                         *)
(* Every component has its own variables, its own initial predicate and    *)
(* its own next-state relation; a specification Spec<Component> runs one   *)
(* component and leaves the variables of the others unchanged.             *)
(***************************************************************************)
EXTENDS Integers, Sequences, FiniteSets, TLC

(***************************************************************************)
(* Bounds of the model.                                                    *)
(***************************************************************************)
\* pids of the small lineage caches that are enumerated exhaustively
NPids == 3
\* length of the long parent chain / parent ring (longer than the default depth)
LongLen == 9
\* largest explicit maxDepth argument passed to Lineage
MaxDepthArg == 3
\* last instant of the wall clock and of event timestamps
MaxNow == 3
\* number of matches in the stream handed to the signal generator
StreamLen == 2
\* number of distinct signal ids handed to the shipper
NSignals == 3
\* number of file names in the spool directory
NFiles == 2
\* writes to one file that are told apart
MaxWrites == 2
\* last instant of the watcher's clock
WatchMaxTime == 5
\* the history of a group counts its events up to this many
MaxHist == 3

\* sizes of files and of decompressed data
MaxSize == 5

\* LoadRules calls per behaviour: the one at startup and the reloads
MaxLoads == 2
\* last instant of the wall clock of the lineage store
MaxStoreTime == 2
\* Store.maxEntries and Store.ttl of the model's store
StoreMaxEntries == 2
StoreTTL == 1

(***************************************************************************)
(* Helpers.                                                                *)
(***************************************************************************)
Range(s) == {s[i] : i \in 1..Len(s)}

NoDuplicates(s) == \A i, j \in 1..Len(s) : i # j => s[i] # s[j]

\* Strings are sequences of one-character strings, so that formatting and
\* joining are computed character by character.
RECURSIVE JoinStr(_, _)
JoinStr(parts, sep) ==
    IF Len(parts) = 0 THEN <<>>
    ELSE IF Len(parts) = 1 THEN parts[1]
    ELSE parts[1] \o sep \o JoinStr(Tail(parts), sep)

HasPrefix(str, prefix) ==
    /\ Len(str) >= Len(prefix)
    /\ SubSeq(str, 1, Len(prefix)) = prefix

\* strings.TrimPrefix
TrimPrefix(str, prefix) ==
    IF HasPrefix(str, prefix) THEN SubSeq(str, Len(prefix) + 1, Len(str)) ELSE str

EventPrefix == <<"e", "v", "e", "n", "t", ".">>

VARIABLES
    \* ---- process-lineage cache (package lineage) ----
    nodes,      \* Store.nodes: Key -> Node (only the Parent link is kept)
    lpc,        \* position of the running Lineage call: idle, loop, done
    larg,       \* the maxDepth argument of the running call
    lmax,       \* the effective maxDepth of the running call
    lchain,     \* chain built so far (nodes are named by their Key)
    lseen,      \* the seen-set of the running call
    lcur,       \* current node of the walk, or NoNode (a nil *Node)
    lkey,       \* the key argument of the running call
    \* ---- wall clock (time.Now) ----
    now,
    \* ---- correlation window manager (package correlation) ----
    corrRules,  \* the compiled correlation rules handed to Process
    windows,    \* state DB bucket windows: <<rule id, group key>> -> event list
    wresult,    \* what the last Process call returned: its WindowMatches
    whist,      \* history of the watched group (not program state): the
                \* matching events processed since the firing before the
                \* last one, and whether the last of them fired
    wlast,      \* the last Process call (not program state): whether its
                \* event matched a rule and whether it had an event_time
    wlastGC,    \* WindowManager.lastGC
    \* ---- baseline processor (package baseline) ----
    firstSeen,  \* state DB bucket first_seen: set of <<rule id, pattern>>
    bworkers,   \* the evaluator workers that call Processor.Process
    bw,         \* per worker: position in Process, its event, isFirst
    bresult,    \* what the last completed Process call returned
    bcalled,    \* tracked values -> a Process call on a matching event with
                \* these values has returned (not program state)
    bemitted,   \* tracked values -> number of BaselineMatches returned for
                \* events with these values, counted up to 2 (not program state)
    \* ---- signal generator (package signals), two runs of the pipeline ----
    sstream,    \* the matches the detection stages yield for the event stream
    sclock,     \* per run: its wall clock, in clock ticks
    spos,       \* per run: how many matches of the stream it has turned into signals
    ssignals,   \* per run: the signals generated so far
    \* ---- shipper ----
    queue,      \* state DB bucket shipped_queue: ids of the queued signals
    shPc,       \* the shipper task: idle, or sending a batch
    shBatch,    \* the batch of the running flush
    shAttempts, \* failed attempts of the running flush
    shFailures, \* consecutive failed flush cycles
    shBreaker,  \* circuit breaker: closed, open, halfopen
    shResp,     \* the last backend response handled
    shRestarted,    \* the agent has been restarted (not program state)
    everEnqueued,   \* ids ever passed to enqueue (not program state)
    acked,          \* ids of batches answered 2xx (not program state)
    poisoned,       \* ids of batches answered 4xx other than 401/403 (not program state)
    shScript,       \* backend: the answers it gives to the next POSTs (<<>>: any)
    shHealthy,      \* backend: it answers 2xx from now on
    shFirst,        \* the batch of the first POST of a scripted backend (not program state)
    \* ---- spool watcher (package spool) and the worker reading its channel ----
    files,      \* spool directory: path -> [st: none / present / archived, mtime]
    nq,         \* file-system notifier: paths with a queued create/write event
    novf,       \* file-system notifier: an event-queue overflow error is queued
    pending,    \* Watcher.pending: path -> recorded mtime, or NoTime
    chan,       \* Watcher.events: the bounded output channel
    journal,    \* state DB bucket journal: paths marked processed
    wpc,        \* the watcher: start (not yet scanned) or run
    wticked,    \* the tick of the current instant has been handled
    wcap,       \* Watcher.maxPendingFiles
    wbuf,       \* capacity of the Watcher's output channel
    fwrites,    \* path -> times written, counted up to MaxWrites (not program state)
    emits,      \* path -> times sent on the channel, counted up to 2 (not program state)
    wblocked,   \* paths a tick found stable while the channel was full (not program state)
    wevicted,   \* a pending entry has been evicted (not program state)
    wevset,     \* the paths evicted from the pending map so far (not program state)
    wdropped,   \* paths written while the notifier dropped events (not program state)
    wstartup,   \* paths that were stable files when the watcher started (not program state)
    wfile,      \* the worker: the path it has processed and not yet archived, or NoPath
    wrestarted, \* the agent has been restarted (not program state)
    wprocessed, \* path -> times processed by the worker, counted up to 2 (not program state)
    \* ---- rules loader (package rules, loader.go) ----
    linput,     \* the rules path: one parsed file, or the parsed files of a directory
    lresult,     \* what Load returned: (config, error), or NotLoaded
    \* ---- rules engine (package rules, engine.go) ----
    engRules,          \* Engine.rules
    engCorrelations,   \* Engine.correlations
    engBaselines,      \* Engine.baselines
    lrPc,       \* LoadRules: idle, or the section whose loop is running
    lrCfg,      \* LoadRules: its argument
    lrIdx,      \* LoadRules: index of the loop
    lrErr,      \* LoadRules: what the last call returned ("" for nil)
    lrPrev,     \* the engine's sets when the last LoadRules was called (not program state)
    lrCalls,    \* number of LoadRules calls so far
    evPc,       \* Evaluate (a worker): idle, or between the length test and the loop
    evLen,      \* Evaluate: the length it read
    evSeen,      \* Evaluate: the compiled rules its loop ran over
    \* ---- spool decoder (package spool) ----
    dinput,     \* the file given to DecodeEvents
    dresult,     \* what DecodeEvents returned: (error, number of events), or NotDecoded
    \* ---- cancellation of the watcher (Watcher.Start(ctx)) ----
    wcancelled, \* ctx of Watcher.Start has been cancelled
    wclosed,    \* Watcher.events has been closed
    wret,        \* what Watcher.Start returned, or NotReturned
    \* ---- agent configuration (package config) ----
    cinput,     \* the configuration handed to ValidateWithOptions, and its skipShipper flag
    cresult,     \* the error ValidateWithOptions returned ("" for nil), or NotValidated
    \* ---- state DB bucket shipped_queue ----
    sqrecs,     \* the records of the bucket: serialized signals
    sqop,        \* the last operation on the bucket (not program state)
    \* ---- the baseline rule's learning_period ----
    blearning,   \* BaselineRule.LearningPeriod of the loaded baseline rule
    \* ---- one evaluation call on one event: Engine.Evaluate, ----
    \* ---- WindowManager.Process or baseline Processor.Process ----
    lpPc,       \* position of the call: idle, loop, done
    lpKind,     \* which of the three calls it is
    lpOut,      \* per rule: what its expression yields on the event and
                \* what the state DB answers for it
    lpToMap,    \* whether events.ToMap fails on the message
    lpIdx,      \* index of the rule the loop is at
    lpEvaluated, \* rules whose Program.Eval was called (not program state)
    lpMatches,  \* the matches slice, a match named by its rule
    lpSeen,     \* rules whose pattern this call marked in first_seen
    lpRet,       \* what the call returned
    \* ---- the shipper's retry settings and the waits of a flush ----
    shRetry,    \* shipper.retry: initial, max, backoff
    shWaits,     \* the waits between the attempts of the current flush
    \* ---- two workers inside WindowManager.Process on one window ----
    cwWindows,  \* the window bucket in the state DB
    cwPc,       \* per worker: idle, stored (after StoreWindowEvent), read
    cwN,        \* per worker: events it has taken so far
    cwRecent,   \* per worker: its recentEvents
    cwMatches,   \* WindowMatches appended so far, by all workers
    \* ---- generateSignalID applied to two argument tuples ----
    gidArgs,    \* the two calls' arguments: ruleID, ts, host, identifier
    gidIDs      \* the two ids returned (empty before the calls)

lineageVars == <<nodes, lpc, larg, lmax, lchain, lseen, lcur, lkey>>

windowVars == <<corrRules, windows, wresult, whist, wlast, wlastGC>>

baselineVars == <<firstSeen, bworkers, bw, bresult, bcalled, bemitted>>

signalVars == <<sstream, sclock, spos, ssignals>>

shipperVars == <<queue, shPc, shBatch, shAttempts, shFailures, shBreaker, shResp,
                 shRestarted, everEnqueued, acked, poisoned, shScript, shHealthy, shFirst>>

loaderVars == <<linput, lresult>>

engineVars == <<engRules, engCorrelations, engBaselines, lrPc, lrCfg, lrIdx, lrErr, lrPrev, lrCalls, evPc, evLen, evSeen>>

decoderVars == <<dinput, dresult>>

cancelVars == <<wcancelled, wclosed, wret>>

configVars == <<cinput, cresult>>

queueVars == <<sqrecs, sqop>>

learningVars == <<blearning>>

loopVars == <<lpPc, lpKind, lpOut, lpToMap, lpIdx, lpEvaluated, lpMatches, lpSeen, lpRet>>

retryVars == <<shRetry, shWaits>>

concVars == <<cwWindows, cwPc, cwN, cwRecent, cwMatches>>

genIdVars == <<gidArgs, gidIDs>>

watcherVars == <<files, nq, novf, pending, chan, journal, wpc, wticked, wcap, wbuf,
                 fwrites, emits, wblocked, wevicted, wevset, wdropped, wstartup,
                 wfile, wrestarted, wprocessed>>

vars == <<nodes, lpc, larg, lmax, lchain, lseen, lcur, lkey, now,
          corrRules, windows, wresult, whist, wlast, wlastGC,
          firstSeen, bworkers, bw, bresult, bcalled, bemitted,
          sstream, sclock, spos, ssignals,
          queue, shPc, shBatch, shAttempts, shFailures, shBreaker, shResp,
          shRestarted, everEnqueued, acked, poisoned, shScript, shHealthy, shFirst,
          files, nq, novf, pending, chan, journal, wpc, wticked, wcap, wbuf,
          fwrites, emits, wblocked, wevicted, wevset, wdropped, wstartup,
          wfile, wrestarted, wprocessed,
          linput, lresult,
          engRules, engCorrelations, engBaselines, lrPc, lrCfg, lrIdx, lrErr, lrPrev, lrCalls, evPc, evLen, evSeen,
          dinput, dresult,
          wcancelled, wclosed, wret,
          cinput, cresult,
          sqrecs, sqop,
          blearning,
          lpPc, lpKind, lpOut, lpToMap, lpIdx, lpEvaluated, lpMatches, lpSeen, lpRet,
          shRetry, shWaits,
          cwWindows, cwPc, cwN, cwRecent, cwMatches,
          gidArgs, gidIDs>>

\* what the actions of one component leave unchanged
othersOfLineage == <<now, windowVars, baselineVars, signalVars, shipperVars, watcherVars, loaderVars, engineVars, decoderVars, cancelVars, configVars, queueVars, learningVars, loopVars, retryVars, concVars, genIdVars>>
othersOfWindow == <<lineageVars, baselineVars, signalVars, shipperVars, watcherVars, loaderVars, engineVars, decoderVars, cancelVars, configVars, queueVars, learningVars, loopVars, retryVars, concVars, genIdVars>>
othersOfBaseline == <<lineageVars, windowVars, signalVars, shipperVars, watcherVars, loaderVars, engineVars, decoderVars, cancelVars, configVars, queueVars, learningVars, loopVars, retryVars, concVars, genIdVars>>
othersOfSignal == <<now, lineageVars, windowVars, baselineVars, shipperVars, watcherVars, loaderVars, engineVars, decoderVars, cancelVars, configVars, queueVars, learningVars, loopVars, retryVars, concVars, genIdVars>>
othersOfShipper == <<now, lineageVars, windowVars, baselineVars, signalVars, watcherVars, loaderVars, engineVars, decoderVars, cancelVars, configVars, queueVars, learningVars, loopVars, retryVars, concVars, genIdVars>>
othersOfRetrying == <<now, lineageVars, windowVars, baselineVars, signalVars, watcherVars, loaderVars, engineVars, decoderVars, cancelVars, configVars, queueVars, learningVars, loopVars, concVars, genIdVars>>
othersOfWatcher == <<lineageVars, windowVars, baselineVars, signalVars, shipperVars, loaderVars, engineVars, decoderVars, cancelVars, configVars, queueVars, learningVars, loopVars, retryVars, concVars, genIdVars>>
othersOfCancel == <<now, lineageVars, windowVars, baselineVars, signalVars, shipperVars, loaderVars, engineVars, decoderVars, configVars, queueVars, learningVars, loopVars, retryVars, concVars, genIdVars>>
othersOfConfig == <<now, lineageVars, windowVars, baselineVars, signalVars, shipperVars, watcherVars, loaderVars, engineVars, decoderVars, cancelVars, queueVars, learningVars, loopVars, retryVars, concVars, genIdVars>>
othersOfQueue == <<now, lineageVars, windowVars, baselineVars, signalVars, shipperVars, watcherVars, loaderVars, engineVars, decoderVars, cancelVars, configVars, learningVars, loopVars, retryVars, concVars, genIdVars>>
othersOfLoop == <<now, lineageVars, windowVars, baselineVars, signalVars, shipperVars, watcherVars, loaderVars, engineVars, decoderVars, cancelVars, configVars, learningVars, queueVars, retryVars, concVars, genIdVars>>
othersOfGenId == <<now, loopVars, lineageVars, windowVars, baselineVars, signalVars, shipperVars, watcherVars, loaderVars, engineVars, decoderVars, cancelVars, configVars, learningVars, queueVars, retryVars, concVars>>
othersOfConc == <<loopVars, lineageVars, windowVars, baselineVars, signalVars, shipperVars, watcherVars, loaderVars, engineVars, decoderVars, cancelVars, configVars, learningVars, queueVars, retryVars, genIdVars>>
othersOfLoader == <<now, lineageVars, windowVars, baselineVars, signalVars, shipperVars, watcherVars, engineVars, decoderVars, cancelVars, configVars, queueVars, learningVars, loopVars, retryVars, concVars, genIdVars>>
othersOfEngine == <<now, lineageVars, windowVars, baselineVars, signalVars, shipperVars, watcherVars, loaderVars, decoderVars, cancelVars, configVars, queueVars, learningVars, loopVars, retryVars, concVars, genIdVars>>
othersOfDecoder == <<now, lineageVars, windowVars, baselineVars, signalVars, shipperVars, watcherVars, loaderVars, engineVars, cancelVars, configVars, queueVars, learningVars, loopVars, retryVars, concVars, genIdVars>>
othersOfClock == <<lineageVars, windowVars, baselineVars, signalVars, shipperVars, watcherVars, loaderVars, engineVars, decoderVars, cancelVars, configVars, queueVars, learningVars, loopVars, retryVars, concVars, genIdVars>>

(***************************************************************************)
(* Process-lineage cache.                                                  *)
(***************************************************************************)
ZeroKey == [BootUUID |-> "", Pid |-> 0, PidVersion |-> 0]

IsZero(k) == k.BootUUID = "" /\ k.Pid = 0 /\ k.PidVersion = 0

\* FromProcessID for a non-nil pid of the one boot session of the model
PKey(p) == [BootUUID |-> "boot", Pid |-> p, PidVersion |-> 1]

NoNode == [BootUUID |-> "nil", Pid |-> 0, PidVersion |-> 0]

DefaultMaxDepth == 8

\* Parent links a node of a small cache may carry: none (zero key), any
\* cached pid, itself, or a pid that is not cached (NPids + 1).
SmallParents == {ZeroKey} \cup {PKey(p) : p \in 1..(NPids + 1)}

SmallCaches ==
    UNION {[{PKey(p) : p \in S} -> [Parent : SmallParents]] : S \in SUBSET (1..NPids)}

\* p -> p+1 -> ... -> LongLen -> (no parent)
ChainCache ==
    [k \in {PKey(p) : p \in 1..LongLen} |->
        [Parent |-> IF k.Pid = LongLen THEN ZeroKey ELSE PKey(k.Pid + 1)]]

\* p -> p+1 -> ... -> LongLen -> 1
RingCache ==
    [k \in {PKey(p) : p \in 1..LongLen} |->
        [Parent |-> IF k.Pid = LongLen THEN PKey(1) ELSE PKey(k.Pid + 1)]]

LineageCaches == SmallCaches \cup {ChainCache, RingCache}

LineageKeys == {ZeroKey} \cup {PKey(p) : p \in 1..(NPids + 1)}

DepthArgs == (0 - 1)..MaxDepthArg

LineageIdle ==
    /\ lpc = "idle"
    /\ larg = 0
    /\ lmax = 0
    /\ lchain = <<>>
    /\ lseen = {}
    /\ lcur = NoNode
    /\ lkey = ZeroKey

Prepend(chain, node) == <<node>> \o chain

\* chain = append(chain, current)
Extend(chain, node) == Append(chain, node)

\* the signal context has no process_tree entry
NoTree == <<NoNode>>

TreeIfAncestors(chain) == IF Len(chain) > 1 THEN chain ELSE NoTree

\* FromRuleMatch with include_process_tree: the serialized chain (one entry
\* per node, in chain order) when the chain is not empty
ProcessTree(chain) == IF Len(chain) > 0 THEN chain ELSE NoTree

\* Lineage, entry: the depth default, the empty-cache return, the first lookup.
LineageCall(key, maxDepth) ==
    /\ lpc = "idle"
    /\ lkey' = key
    /\ larg' = maxDepth
    /\ lmax' = IF maxDepth <= 0 THEN DefaultMaxDepth ELSE maxDepth
    /\ lchain' = <<>>
    /\ lseen' = {}
    /\ IF Cardinality(DOMAIN nodes) = 0
         THEN /\ lcur' = NoNode
              /\ lpc' = "done"
         ELSE /\ lcur' = IF key \in DOMAIN nodes THEN key ELSE NoNode
              /\ lpc' = "loop"
    /\ UNCHANGED <<nodes, othersOfLineage>>

\* A walk that never consults the seen-set.
LineageLoopNoSeen ==
    /\ lpc = "loop"
    /\ IF lcur # NoNode /\ Len(lchain) < lmax
         THEN /\ lchain' = Extend(lchain, lcur)
              /\ lseen' = lseen \cup {lcur}
              /\ IF IsZero(nodes[lcur].Parent)
                   THEN lpc' = "done" /\ lcur' = lcur
                   ELSE IF nodes[lcur].Parent \notin DOMAIN nodes
                          THEN lpc' = "done" /\ lcur' = lcur
                          ELSE lpc' = "loop" /\ lcur' = nodes[lcur].Parent
         ELSE /\ lpc' = "done"
              /\ UNCHANGED <<lchain, lseen, lcur>>
    /\ UNCHANGED <<nodes, larg, lmax, lkey, othersOfLineage>>

\* Lineage, one evaluation of the loop condition and, when it holds, one
\* iteration of the body.
LineageLoop ==
    /\ lpc = "loop"
    /\ IF lcur # NoNode /\ Len(lchain) < lmax
         THEN /\ lchain' = Extend(lchain, lcur)
              /\ lseen' = lseen \cup {lcur}
              /\ IF IsZero(nodes[lcur].Parent)
                   THEN lpc' = "done" /\ lcur' = lcur
                   ELSE IF nodes[lcur].Parent \notin DOMAIN nodes
                          THEN lpc' = "done" /\ lcur' = lcur
                          ELSE IF nodes[lcur].Parent \in lseen'
                                 THEN lpc' = "done" /\ lcur' = lcur
                                 ELSE lpc' = "loop" /\ lcur' = nodes[lcur].Parent
         ELSE /\ lpc' = "done"
              /\ UNCHANGED <<lchain, lseen, lcur>>
    /\ UNCHANGED <<nodes, larg, lmax, lkey, othersOfLineage>>

\* Lineage, return: the caller takes the chain.
LineageReturn ==
    /\ lpc = "done"
    /\ lpc' = "idle"
    /\ larg' = 0
    /\ lmax' = 0
    /\ lchain' = <<>>
    /\ lseen' = {}
    /\ lcur' = NoNode
    /\ lkey' = ZeroKey
    /\ UNCHANGED <<nodes, othersOfLineage>>

\* a nil *santapb.ProcessID
NilPid == [Pid |-> 0 - 1, PidVersion |-> 0 - 1]

ProcessIDs == {[Pid |-> 0, PidVersion |-> 0], [Pid |-> 1, PidVersion |-> 1]}

\* boot session uuids of the messages: the empty uuid and a session's uuid
Boots == {"", "a"}

FromProcessID(bootUUID, pid) ==
    IF pid = NilPid
      THEN ZeroKey
      ELSE [BootUUID |-> bootUUID, Pid |-> pid.Pid, PidVersion |-> pid.PidVersion]

\* execution events: the target's id, the target's parent id, the
\* instigator's id (each may be nil)
Executions ==
    [target : ProcessIDs \cup {NilPid},
     parent : ProcessIDs \cup {NilPid},
     instigator : {[Pid |-> 1, PidVersion |-> 1], NilPid}]

parentID(ev) ==
    IF ev.parent # NilPid THEN ev.parent
    ELSE IF ev.instigator # NilPid THEN ev.instigator
    ELSE NilPid

NodeOfNoBoot(boot, ev, t) ==
    [Parent |-> FromProcessID("", parentID(ev)), CreatedAt |-> t]

\* the node UpsertFromExecution builds (the fields that carry no key are
\* left out)
NodeOf(boot, ev, t) ==
    [Parent |-> FromProcessID(boot, parentID(ev)), CreatedAt |-> t]

\* the map without the keys of D
Without(ns, D) == [k \in DOMAIN ns \ D |-> ns[k]]

evictExpiredLocked(ns, t) ==
    IF StoreTTL <= 0 \/ Cardinality(DOMAIN ns) = 0
      THEN ns
      ELSE Without(ns, {k \in DOMAIN ns : ns[k].CreatedAt < t - StoreTTL})

\* the maps evictOldestLocked may leave: the iteration order of the map
\* decides among the nodes of the oldest CreatedAt; a zero key is not deleted
evictOldestLocked(ns) ==
    IF Cardinality(DOMAIN ns) = 0
      THEN {ns}
      ELSE {IF IsZero(k) THEN ns ELSE Without(ns, {k}) :
               k \in {k \in DOMAIN ns : \A o \in DOMAIN ns : ns[k].CreatedAt <= ns[o].CreatedAt}}

\* UpsertFromExecution under the write lock (no Lineage call holds the read
\* lock)
UpsertFromExecution(boot, ev) ==
    /\ lpc = "idle"
    /\ IF ev.target = NilPid
         THEN UNCHANGED nodes
         ELSE LET key == FromProcessID(boot, ev.target)
                  live == evictExpiredLocked(nodes, now)
                  room == IF Cardinality(DOMAIN live) >= StoreMaxEntries
                            THEN evictOldestLocked(live)
                            ELSE {live}
              IN \E ns \in room :
                    nodes' = [k \in DOMAIN ns \cup {key} |->
                                 IF k = key THEN NodeOf(boot, ev, now) ELSE ns[k]]
    /\ UNCHANGED <<lpc, larg, lmax, lchain, lseen, lcur, lkey, othersOfLineage>>

\* time passes for the lineage store
StoreClockTick ==
    /\ now < MaxStoreTime
    /\ now' = now + 1
    /\ UNCHANGED othersOfClock

\* keys Lineage is asked for
StoreKeys == {FromProcessID(boot, pid) : boot \in Boots, pid \in ProcessIDs}

(***************************************************************************)
(* Event view: ExtractField over the flattened event map.                  *)
(***************************************************************************)
\* The event map is kept flat: field path -> string value.  A path that is
\* not in the map yields the empty string, as a missing key does.
ExtractField(event, field) ==
    IF field \in DOMAIN event.fields THEN event.fields[field] ELSE <<>>

\* "%s=%s" of the cleaned field name and its value
FieldSegment(event, field) ==
    TrimPrefix(field, EventPrefix) \o <<"=">> \o ExtractField(event, TrimPrefix(field, EventPrefix))

(***************************************************************************)
(* Correlation window manager.                                             *)
(***************************************************************************)
NoTime == 0 - 1

GlobalKey == <<"_", "g", "l", "o", "b", "a", "l">>

\* WindowManager.maxEvents
WmMaxEvents == 2

FieldF == <<"f">>
FieldG == <<"g">>

\* rule: count events per value of f
CountRule ==
    [ID |-> "corr_count", Window |-> 2, Threshold |-> 2,
     GroupBy |-> <<FieldF>>, CountDistinct |-> <<>>]

\* rule: count distinct values of g over all events (no group_by)
DistinctRule ==
    [ID |-> "corr_distinct", Window |-> 1, Threshold |-> 2,
     GroupBy |-> <<>>, CountDistinct |-> <<"e", "v", "e", "n", "t", ".", "g">>]

\* rule: an expression that never yields true on the events of the model
\* (it is false, fails to evaluate, or yields a non-boolean)
FailingRule ==
    [ID |-> "corr_failing", Window |-> 1, Threshold |-> 1,
     GroupBy |-> <<>>, CountDistinct |-> <<>>]

CorrRuleSets == {<<CountRule>>, <<DistinctRule>>, <<FailingRule, CountRule>>}

CorrRuleIds == {CountRule.ID, DistinctRule.ID, FailingRule.ID}

EvalResults == {"true", "false", "error", "nonbool"}

\* Events handed to WindowManager.Process: event_time (or none), the fields
\* f and g, and what each rule's compiled expression evaluates to.
WindowFieldMaps ==
    {[n \in {FieldF, FieldG} |-> IF n = FieldF THEN <<"a">> ELSE <<"x">>],
     [n \in {FieldF, FieldG} |-> IF n = FieldF THEN <<"a">> ELSE <<"y">>],
     [n \in {FieldF} |-> <<"b">>]}

\* The sensor stamps an event before the agent reads it: event_time is not
\* later than the wall clock t of the agent.
WindowEventsFor(rules, t) ==
    [time : (0..t) \cup {NoTime},
     fields : WindowFieldMaps,
     eval : {ev \in [{rules[i].ID : i \in 1..Len(rules)} -> EvalResults] :
                FailingRule.ID \in DOMAIN ev => ev[FailingRule.ID] # "true"}]

\* extractGroupKey
extractGroupKey(event, groupBy) ==
    IF Len(groupBy) = 0 THEN GlobalKey
    ELSE JoinStr([i \in 1..Len(groupBy) |-> FieldSegment(event, groupBy[i])], <<"|">>)

GroupKeys ==
    {GlobalKey} \cup {extractGroupKey([fields |-> m], CountRule.GroupBy) : m \in WindowFieldMaps}

\* the copy of the event kept in the window bucket
StoredEvent(event) == [time |-> event.time, fields |-> event.fields]

\* a withinWindow that lets an event without event_time pass
withinWindowOrUntimed(event, t, window) ==
    IF window = 0 THEN TRUE
    ELSE IF event.time = NoTime THEN TRUE
    ELSE t - event.time <= window

\* withinWindow: event_time against the wall clock
withinWindow(event, t, window) ==
    IF window = 0 THEN TRUE
    ELSE IF event.time = NoTime THEN FALSE
    ELSE t - event.time <= window

RECURSIVE FilterRecent(_, _, _)
FilterRecent(list, t, window) ==
    IF Len(list) = 0 THEN <<>>
    ELSE IF withinWindow(Head(list), t, window)
           THEN <<Head(list)>> \o FilterRecent(Tail(list), t, window)
           ELSE FilterRecent(Tail(list), t, window)

\* a truncation that keeps the head of the list: recentEvents[:wm.maxEvents]
TruncateNewest(list) ==
    IF WmMaxEvents > 0 /\ Len(list) > WmMaxEvents
      THEN SubSeq(list, 1, WmMaxEvents)
      ELSE list

\* recentEvents[len(recentEvents)-wm.maxEvents:]
TruncateOldest(list) ==
    IF WmMaxEvents > 0 /\ Len(list) > WmMaxEvents
      THEN SubSeq(list, Len(list) - WmMaxEvents + 1, Len(list))
      ELSE list

\* a count that ignores count_distinct
countAll(list, rule) == Len(list)

\* countEvents
countEvents(list, rule) ==
    IF rule.CountDistinct # <<>>
      THEN Cardinality({ExtractField(list[i], TrimPrefix(rule.CountDistinct, EventPrefix)) :
                           i \in 1..Len(list)} \ {<<>>})
      ELSE Len(list)

\* state DB: StoreWindowEvent appends, ReplaceWindowEvents overwrites
StoreWindowEvent(w, ruleId, key, ev) ==
    [w EXCEPT ![<<ruleId, key>>] = Append(@, ev)]

ReplaceWindowEvents(w, ruleId, key, list) ==
    [w EXCEPT ![<<ruleId, key>>] = list]

\* The body of the rule loop of Process for one rule, on window store w:
\* the store after it and the match it appends (or none).
RuleMatched(event, rule) == event.eval[rule.ID] = "true"

RecentOf(w, event, rule, t) ==
    TruncateOldest(
        FilterRecent(
            StoreWindowEvent(w, rule.ID, extractGroupKey(event, rule.GroupBy),
                             StoredEvent(event))[<<rule.ID, extractGroupKey(event, rule.GroupBy)>>],
            t, rule.Window))

RuleFires(w, event, rule, t) ==
    /\ RuleMatched(event, rule)
    /\ countEvents(RecentOf(w, event, rule, t), rule) >= rule.Threshold

ProcessRule(w, event, rule, t) ==
    IF ~RuleMatched(event, rule) THEN w
    ELSE IF RuleFires(w, event, rule, t)
           THEN ReplaceWindowEvents(w, rule.ID, extractGroupKey(event, rule.GroupBy), <<>>)
           ELSE ReplaceWindowEvents(w, rule.ID, extractGroupKey(event, rule.GroupBy),
                                    RecentOf(w, event, rule, t))

WindowMatchOf(w, event, rule, t) ==
    [RuleID |-> rule.ID,
     GroupKey |-> extractGroupKey(event, rule.GroupBy),
     Count |-> countEvents(RecentOf(w, event, rule, t), rule),
     Events |-> RecentOf(w, event, rule, t)]

\* the rule loop: the store after rules[1..n]
RECURSIVE StoreAfter(_, _, _, _, _)
StoreAfter(w, event, rules, n, t) ==
    IF n = 0 THEN w
    ELSE ProcessRule(StoreAfter(w, event, rules, n - 1, t), event, rules[n], t)

\* the rule loop: the matches appended by rules[1..n]
RECURSIVE MatchesAfter(_, _, _, _, _)
MatchesAfter(w, event, rules, n, t) ==
    IF n = 0 THEN <<>>
    ELSE IF RuleFires(StoreAfter(w, event, rules, n - 1, t), event, rules[n], t)
           THEN Append(MatchesAfter(w, event, rules, n - 1, t),
                       WindowMatchOf(StoreAfter(w, event, rules, n - 1, t), event, rules[n], t))
           ELSE MatchesAfter(w, event, rules, n - 1, t)

\* The watched group, whose history is kept: the count rule's group f=a.
WatchedRule == CountRule

WatchedKey == <<"f", "=", "a">>

NoHist == [k |-> 0, first |-> NoTime, last |-> NoTime, ok |-> TRUE, fired |-> FALSE]

\* The events of the history so far carry timestamps, came in timestamp
\* order and lie within the rule's window of the first one.
HistOk(h, event) ==
    /\ h.ok
    /\ event.time # NoTime
    /\ h.k > 0 => (h.last <= event.time /\ event.time - h.first <= WatchedRule.Window)

\* the history extended by one more matching event of the group; a history
\* that ended in a firing starts again
HistPlus(h, event, fires) ==
    IF h.fired THEN
        [k |-> 1, first |-> event.time, last |-> event.time,
         ok |-> event.time # NoTime, fired |-> fires]
    ELSE IF HistOk(h, event) THEN
        [k |-> IF h.k < MaxHist THEN h.k + 1 ELSE h.k,
         first |-> IF h.k = 0 THEN event.time ELSE h.first,
         last |-> event.time, ok |-> TRUE, fired |-> fires]
    ELSE
        [k |-> 0, first |-> NoTime, last |-> NoTime, ok |-> FALSE, fired |-> fires]

Watched(event, rules) ==
    \E i \in 1..Len(rules) :
        /\ rules[i] = WatchedRule
        /\ RuleMatched(event, rules[i])
        /\ extractGroupKey(event, rules[i].GroupBy) = WatchedKey

WatchedFired(matches) ==
    \E m \in Range(matches) : m.RuleID = WatchedRule.ID /\ m.GroupKey = WatchedKey

\* no Process call yet
NotProcessed == "none"

\* what the history keeps of a Process call
KindOf(event, rules) ==
    IF \A i \in 1..Len(rules) : ~RuleMatched(event, rules[i]) THEN "unmatched"
    ELSE IF event.time = NoTime THEN "untimed"
    ELSE "timed"

\* wm.gcInterval (state.windows.gc_interval, one minute by default)
GcInterval == 1

\* the periodic garbage collection block at the end of Process:
\* when the interval has passed it records the time and does nothing else
GcDue(t, last) == t - last >= GcInterval

LastGCAfter(t, last) == IF GcDue(t, last) THEN t ELSE last

\* WindowManager.Process on one event, by one worker
WindowProcess(event) ==
    /\ Len(corrRules) > 0
    /\ wlast' = KindOf(event, corrRules)
    /\ wlastGC' = LastGCAfter(now, wlastGC)
    /\ windows' = StoreAfter(windows, event, corrRules, Len(corrRules), now)
    /\ wresult' = MatchesAfter(windows, event, corrRules, Len(corrRules), now)
    /\ whist' = IF Watched(event, corrRules)
                  THEN HistPlus(whist, event, WatchedFired(wresult'))
                  ELSE whist
    /\ UNCHANGED <<corrRules, now, othersOfWindow>>

\* the wall clock advances
ClockTick ==
    /\ now < MaxNow
    /\ now' = now + 1
    /\ UNCHANGED othersOfClock

WindowBuckets == CorrRuleIds \X GroupKeys

WindowStart ==
    /\ corrRules = <<>>
    /\ windows = [b \in WindowBuckets |-> <<>>]
    /\ wresult = <<>>
    /\ whist = NoHist
    /\ wlast = NotProcessed
    /\ wlastGC = 0

(***************************************************************************)
(* Baseline (first-seen) processor.                                        *)
(***************************************************************************)
\* Engine.startTime
AgentStart == 0

FieldA == <<"a">>
FieldB == <<"b">>

\* rule: first occurrence of each (a, b); track is written as in the rule
\* files, one path with the "event." prefix and one without
TrackRule ==
    [ID |-> "base_track",
     Track |-> <<EventPrefix \o FieldA, FieldB>>,
     LearningPeriod |-> 1]

\* values of a tracked field: empty, or a string holding the characters the
\* pattern is built with
BaselineValues == {<<>>, <<"|", "b", "=">>}

\* event maps: both fields present, or b absent
BaselineFieldMaps == [{FieldA, FieldB} -> BaselineValues] \cup [{FieldA} -> BaselineValues]

\* Events handed to Processor.Process at wall clock t: event_time (or none),
\* the fields, and what the rule's compiled expression evaluates to.
BaselineEvents(t) ==
    [time : {NoTime, t}, fields : BaselineFieldMaps, eval : EvalResults]

\* extractPattern
extractPattern(event, trackFields) ==
    JoinStr([i \in 1..Len(trackFields) |-> FieldSegment(event, trackFields[i])], <<"|">>)

\* the values of the tracked fields of an event, field by field
TrackedValues(event, trackFields) ==
    [i \in 1..Len(trackFields) |-> ExtractField(event, TrimPrefix(trackFields[i], EventPrefix))]

BaselineTuples ==
    {TrackedValues([fields |-> m], TrackRule.Track) : m \in BaselineFieldMaps}

BaselinePatterns ==
    {extractPattern([fields |-> m], TrackRule.Track) : m \in BaselineFieldMaps}

\* state DB, IsFirstSeen: one transaction that tests for the key and inserts it
IsFirstSeen(fs, ruleId, pattern) == <<ruleId, pattern>> \notin fs

FirstSeenKeep(fs, ruleId, pattern) == fs

FirstSeenInsert(fs, ruleId, pattern) == fs \cup {<<ruleId, pattern>>}

\* Engine.IsInLearningPeriod
InLearningInclusive(rule, t) ==
    IF rule.LearningPeriod = 0 THEN FALSE ELSE t - AgentStart <= rule.LearningPeriod

IsInLearningPeriod(rule, t) ==
    IF rule.LearningPeriod = 0 THEN FALSE ELSE t - AgentStart < rule.LearningPeriod

\* learning periods a rule file may give: none, or a duration
LearningPeriods == {0, 1, 2}

\* the baseline rule as loaded
LoadedBaseline == [TrackRule EXCEPT !.LearningPeriod = blearning]

NoEvent == [time |-> NoTime, fields |-> [n \in {} |-> <<>>], eval |-> "false"]

WorkerIdle == [pc |-> "idle", event |-> NoEvent, isFirst |-> FALSE]

BaselineMatchOf(event, rule, t) ==
    [RuleID |-> rule.ID,
     Pattern |-> extractPattern(event, rule.Track),
     Message |-> [time |-> event.time, fields |-> event.fields],
     Timestamp |-> event.time,
     InLearning |-> IsInLearningPeriod(rule, t)]

\* Process on an event the rule's filter does not accept (false, evaluation
\* error, non-boolean): the rule is skipped, no match is returned.
BaselineSkip(w, event) ==
    /\ bw[w].pc = "idle"
    /\ event.eval # "true"
    /\ bresult' = <<>>
    /\ UNCHANGED <<firstSeen, bworkers, bw, bcalled, bemitted, now, othersOfBaseline>>

\* Process on an event the filter accepts, up to the call of IsFirstSeen
BaselineBegin(w, event) ==
    /\ bw[w].pc = "idle"
    /\ event.eval = "true"
    /\ bw' = [bw EXCEPT ![w] = [pc |-> "check", event |-> event, isFirst |-> FALSE]]
    /\ UNCHANGED <<firstSeen, bworkers, bresult, bcalled, bemitted, now, othersOfBaseline>>

\* the IsFirstSeen transaction of worker w
BaselineIsFirstSeen(w) ==
    /\ bw[w].pc = "check"
    /\ bw' = [bw EXCEPT ![w].pc = "emit",
                        ![w].isFirst = IsFirstSeen(firstSeen, TrackRule.ID,
                                                   extractPattern(bw[w].event, TrackRule.Track))]
    /\ firstSeen' = FirstSeenInsert(firstSeen, TrackRule.ID,
                                    extractPattern(bw[w].event, TrackRule.Track))
    /\ UNCHANGED <<bworkers, bresult, bcalled, bemitted, now, othersOfBaseline>>

\* the rest of Process: the match is appended if isFirst, and Process returns
BaselineReturn(w) ==
    /\ bw[w].pc = "emit"
    /\ bresult' = IF bw[w].isFirst
                    THEN <<BaselineMatchOf(bw[w].event, LoadedBaseline, now)>>
                    ELSE <<>>
    /\ bcalled' = [bcalled EXCEPT ![TrackedValues(bw[w].event, TrackRule.Track)] = TRUE]
    /\ bemitted' = [bemitted EXCEPT ![TrackedValues(bw[w].event, TrackRule.Track)] =
                        IF @ + Len(bresult') > 2 THEN 2 ELSE @ + Len(bresult')]
    /\ bw' = [bw EXCEPT ![w] = WorkerIdle]
    /\ UNCHANGED <<firstSeen, bworkers, now, othersOfBaseline>>

BaselineStart ==
    /\ firstSeen = {}
    /\ bworkers = {}
    /\ bw = [w \in {} |-> WorkerIdle]
    /\ bresult = <<>>
    /\ bcalled = [t \in BaselineTuples |-> FALSE]
    /\ bemitted = [t \in BaselineTuples |-> 0]
    /\ blearning = TrackRule.LearningPeriod

(***************************************************************************)
(* Signal generator.                                                       *)
(***************************************************************************)
\* Times are counted in clock ticks; time.RFC3339 prints whole seconds.
TicksPerSecond == 2

Digits == <<"0", "1", "2", "3", "4", "5", "6", "7", "8", "9">>

\* ts.Format(time.RFC3339): the second the instant lies in
FormatRFC3339(ts) == <<Digits[(ts \div TicksPerSecond) + 1]>>

\* Generator.hostID
HostID == <<"h", "1">>

\* an id that leaves the host out of the hashed data
generateSignalIDWithoutHost(ruleID, ts, host, identifier) ==
    JoinStr(<<ruleID, FormatRFC3339(ts), identifier>>, <<"|">>)

\* generateSignalID: the hash is taken as injective on the formatted data
generateSignalID(ruleID, ts, host, identifier) ==
    JoinStr(<<ruleID, FormatRFC3339(ts), host, identifier>>, <<"|">>)

\* rules.Match: Timestamp (NoTime is the zero time), and the event's target
RuleMatches ==
    [kind : {"rule"}, RuleID : {<<"r">>}, Timestamp : {NoTime, 1},
     sha256 : {<<>>, <<"s">>}, path : {<<"p">>}]

\* baseline.BaselineMatch, with the target of its Message
BaselineMatches ==
    [kind : {"baseline"}, RuleID : {<<"b">>}, Timestamp : {NoTime, 1},
     Pattern : {<<"a", "=", "x">>}, sha256 : {<<>>, <<"s">>}, path : {<<"p">>}]

\* correlation.WindowMatch, with the target of the event that fired it
WindowMatches ==
    [kind : {"window"}, RuleID : {<<"c">>}, GroupKey : {GlobalKey},
     sha256 : {<<>>, <<"s">>}, path : {<<"p">>}]

SignalMatches == RuleMatches \cup BaselineMatches \cup WindowMatches

\* FromRuleMatch at wall clock t
FromRuleMatch(match, t) ==
    LET ts == IF match.Timestamp = NoTime THEN t ELSE match.Timestamp
        targetIdentifier == IF match.sha256 = <<>> THEN match.path ELSE match.sha256
    IN [ID |-> generateSignalID(match.RuleID, ts, HostID, targetIdentifier),
        TS |-> ts, HostID |-> HostID, RuleID |-> match.RuleID]

\* FromWindowMatch at wall clock t
FromWindowMatch(match, t) ==
    [ID |-> generateSignalID(match.RuleID, t, HostID, match.GroupKey),
     TS |-> t, HostID |-> HostID, RuleID |-> match.RuleID]

\* FromBaselineMatch at wall clock t
FromBaselineMatch(match, t) ==
    LET ts == IF match.Timestamp = NoTime THEN t ELSE match.Timestamp
    IN [ID |-> generateSignalID(match.RuleID, ts, HostID, match.Pattern),
        TS |-> ts, HostID |-> HostID, RuleID |-> match.RuleID]

SignalOf(match, t) ==
    IF match.kind = "rule" THEN FromRuleMatch(match, t)
    ELSE IF match.kind = "baseline" THEN FromBaselineMatch(match, t)
    ELSE FromWindowMatch(match, t)

Runs == {1, 2}

\* run r turns the next match of the stream into a signal
GenerateSignal(r) ==
    /\ spos[r] < Len(sstream)
    /\ ssignals' = [ssignals EXCEPT ![r] = @ \cup {SignalOf(sstream[spos[r] + 1], sclock[r])}]
    /\ spos' = [spos EXCEPT ![r] = @ + 1]
    /\ UNCHANGED <<sstream, sclock, othersOfSignal>>

\* the wall clock of run r advances
RunClockTick(r) ==
    /\ sclock[r] < MaxNow
    /\ sclock' = [sclock EXCEPT ![r] = @ + 1]
    /\ UNCHANGED <<sstream, spos, ssignals, othersOfSignal>>

SignalIDs(r) == {sig.ID : sig \in ssignals[r]}

SignalStart ==
    /\ sstream = <<>>
    /\ sclock = [r \in Runs |-> 0]
    /\ spos = [r \in Runs |-> 0]
    /\ ssignals = [r \in Runs |-> {}]

(***************************************************************************)
(* Shipper.                                                                *)
(***************************************************************************)
\* shipper.batch_size (scaled down)
BatchSize == 2

\* shipper.retry.max_attempts (scaled down)
MaxAttempts == 2

\* consecutive failed flush cycles that open the circuit breaker
BreakerThreshold == 2

ShipIds == 1..NSignals

\* backend answers to a POST: accepted, poison payload, auth failures, rate
\* limit, server error, network error
Responses == {"2xx", "4xx", "401", "403", "429", "5xx", "neterr"}

\* scenario S4: the endpoint returns 503 five times, then 200
S4Failures == 5

S4Script == [i \in 1..(S4Failures + 1) |-> IF i <= S4Failures THEN "5xx" ELSE "2xx"]

\* what the backend may answer to the POST in flight
BackendAnswers(resp) ==
    IF shScript # <<>> THEN resp = Head(shScript)
    ELSE shHealthy => resp = "2xx"

Played(script) == IF script # <<>> THEN Tail(script) ELSE script

BreakerStaysClosed(breaker, failures) == "closed"

\* the breaker after a failed flush cycle that leaves failures consecutive
\* failed cycles: it opens at the threshold, and a failed half-open probe
\* opens it again
BreakerAfterFailure(breaker, failures) ==
    IF breaker = "halfopen" \/ failures >= BreakerThreshold THEN "open" ELSE breaker

RetryableNo429 == {"401", "403", "5xx", "neterr"}

\* answers that leave the batch queued for a retry
Retryable == {"401", "403", "429", "5xx", "neterr"}

\* applyDefaults: retry.initial 1s, retry.max 30s, backoff exponential (the
\* unit of the model is the default initial wait)
DefaultRetry == [Initial |-> 1, Max |-> 30, Backoff |-> "exponential"]

\* retry settings ValidateWithOptions accepts: backoff exponential or
\* linear; initial and max are not compared with each other
RetryConfigs ==
    [Initial : {1, 2, 3}, Max : {2, 30}, Backoff : {"exponential", "linear"}]

RECURSIVE Pow2(_)
Pow2(n) == IF n = 0 THEN 1 ELSE 2 * Pow2(n - 1)

\* the wait after the n-th failed attempt: initial, doubled (exponential)
\* or increased by initial (linear) per attempt, and at most max
BackoffWait(retry, n) ==
    LET raw == IF retry.Backoff = "exponential"
                 THEN retry.Initial * Pow2(n - 1)
                 ELSE retry.Initial * n
    IN IF raw > retry.Max THEN retry.Max ELSE raw

\* list_queued_signals(limit): the first limit ids in key order
RECURSIVE FirstIds(_, _)
FirstIds(q, limit) ==
    IF q = {} \/ limit = 0 THEN {}
    ELSE LET m == CHOOSE x \in q : \A y \in q : x <= y
         IN {m} \cup FirstIds(q \ {m}, limit - 1)

\* what a flush cycle whose attempts are exhausted leaves in the queue
QueueAfterPurge(q, batch) == q \ batch

QueueAfterExhausted(q, batch) == q

\* enqueue(signal): insert-or-ignore keyed by signal id (a signal that was
\* shipped or dropped is not generated again)
Enqueue(id) ==
    /\ id \notin acked \cup poisoned
    /\ queue' = queue \cup {id}
    /\ everEnqueued' = everEnqueued \cup {id}
    /\ UNCHANGED <<shPc, shBatch, shAttempts, shFailures, shBreaker, shResp,
                   shRestarted, acked, poisoned, shScript, shHealthy, shFirst,
                   othersOfShipper>>

\* a flush (periodic or on enqueue) reads a batch and posts it; flushes are
\* skipped while the breaker is open and when the queue is empty
FlushStart ==
    /\ shPc = "idle"
    /\ shBreaker # "open"
    /\ queue # {}
    /\ shPc' = "sending"
    /\ shBatch' = FirstIds(queue, BatchSize)
    /\ shAttempts' = 0
    /\ shWaits' = <<>>
    /\ shFirst' = IF shScript # <<>> /\ shFirst = {} THEN FirstIds(queue, BatchSize) ELSE shFirst
    /\ UNCHANGED <<queue, shFailures, shBreaker, shResp, shRestarted, shRetry,
                   everEnqueued, acked, poisoned, shScript, shHealthy, othersOfRetrying>>

\* 2xx: the batch is deleted from the queue
RespondAccepted ==
    /\ shPc = "sending"
    /\ BackendAnswers("2xx")
    /\ shScript' = Played(shScript)
    /\ shResp' = "2xx"
    /\ queue' = queue \ shBatch
    /\ acked' = acked \cup shBatch
    /\ shPc' = "idle"
    /\ shBatch' = {}
    /\ shAttempts' = 0
    /\ shFailures' = 0
    /\ shBreaker' = "closed"
    /\ UNCHANGED <<shRestarted, everEnqueued, poisoned, shHealthy, shFirst, othersOfShipper>>

\* 4xx other than 401/403: the batch is deleted (poison) and logged
RespondPoison(resp) ==
    /\ shPc = "sending"
    /\ resp \in Responses \ (Retryable \cup {"2xx"})
    /\ BackendAnswers(resp)
    /\ shScript' = Played(shScript)
    /\ shResp' = resp
    /\ queue' = queue \ shBatch
    /\ poisoned' = poisoned \cup shBatch
    /\ shPc' = "idle"
    /\ shBatch' = {}
    /\ shAttempts' = 0
    /\ UNCHANGED <<shFailures, shBreaker, shRestarted, everEnqueued, acked,
                   shHealthy, shFirst, othersOfShipper>>

\* network error, 5xx, 429, 401, 403: retry after backoff; when the attempts
\* are exhausted the cycle has failed, the batch stays queued, and enough
\* failed cycles in a row (or a failed half-open probe) open the breaker
RespondRetryable(resp) ==
    /\ shPc = "sending"
    /\ resp \in Retryable
    /\ BackendAnswers(resp)
    /\ shScript' = Played(shScript)
    /\ shResp' = resp
    /\ IF shAttempts + 1 < MaxAttempts
         THEN /\ shAttempts' = shAttempts + 1
              /\ shWaits' = Append(shWaits, BackoffWait(shRetry, shAttempts + 1))
              /\ UNCHANGED <<queue, shPc, shBatch, shFailures, shBreaker>>
         ELSE /\ queue' = QueueAfterExhausted(queue, shBatch)
              /\ shPc' = "idle"
              /\ shBatch' = {}
              /\ shAttempts' = 0
              /\ shWaits' = shWaits
              /\ shFailures' = IF shFailures < BreakerThreshold THEN shFailures + 1 ELSE shFailures
              /\ shBreaker' = BreakerAfterFailure(shBreaker, shFailures')
    /\ UNCHANGED <<shRestarted, everEnqueued, acked, poisoned, shHealthy, shFirst, shRetry,
                   othersOfRetrying>>

StaysOpen(breaker) == breaker

\* the breaker when the cool-down timer fires
AfterCoolDown(breaker) == "halfopen"

\* the cool-down of the open breaker ends: the next flush is a probe
BreakerCoolDown ==
    /\ shBreaker = "open"
    /\ shBreaker' = AfterCoolDown(shBreaker)
    /\ UNCHANGED <<queue, shPc, shBatch, shAttempts, shFailures, shResp,
                   shRestarted, everEnqueued, acked, poisoned, shScript, shHealthy,
                   shFirst, othersOfShipper>>

\* the backend recovers: from now on it answers 2xx
BackendRecovers ==
    /\ ~shHealthy
    /\ shHealthy' = TRUE
    /\ UNCHANGED <<queue, shPc, shBatch, shAttempts, shFailures, shBreaker, shResp,
                   shRestarted, everEnqueued, acked, poisoned, shScript, shFirst,
                   othersOfShipper>>

\* agent restart (one per behaviour): the task's memory is lost, the state
\* DB is kept
ShipperRestart ==
    /\ ~shRestarted
    /\ shPc' = "idle"
    /\ shBatch' = {}
    /\ shAttempts' = 0
    /\ shFailures' = 0
    /\ shBreaker' = "closed"
    /\ shRestarted' = TRUE
    /\ UNCHANGED <<queue, shResp, everEnqueued, acked, poisoned, shScript, shHealthy,
                   shFirst, othersOfShipper>>

ShipperStart ==
    /\ queue = {}
    /\ shPc = "idle"
    /\ shBatch = {}
    /\ shAttempts = 0
    /\ shFailures = 0
    /\ shBreaker = "closed"
    /\ shResp = "none"
    /\ shRestarted = FALSE
    /\ everEnqueued = {}
    /\ acked = {}
    /\ poisoned = {}
    /\ shScript = <<>>
    /\ shHealthy = FALSE
    /\ shFirst = {}
    /\ shRetry = DefaultRetry
    /\ shWaits = <<>>

(***************************************************************************)
(* Spool watcher, and the worker that reads its channel.                   *)
(***************************************************************************)
\* santa.stability_wait, in check intervals (the unit of time)
StabilityWait == 2

\* WatcherOptions.CheckInterval
CheckInterval == 1

\* values of WatcherOptions.ChannelBuffer
ChannelBuffers == {1, 2}

\* values of WatcherOptions.MaxPendingFiles
PendingCaps == {1, 2}

Paths == 1..NFiles

\* the worker holds no file
NoPath == 0

NoFile == [st |-> "none", mtime |-> NoTime]

Archived == [st |-> "archived", mtime |-> NoTime]

FileAt(t) == [st |-> "present", mtime |-> t]

Present(fs, path) == fs[path].st = "present"

PendingPaths(pend) == {path \in Paths : pend[path] # NoTime}

NoPending == [path \in Paths |-> NoTime]

RECURSIVE SetToSeq(_)
SetToSeq(S) ==
    IF S = {} THEN <<>>
    ELSE LET m == CHOOSE x \in S : \A y \in S : x <= y
         IN <<m>> \o SetToSeq(S \ {m})

StableAtOnce(recorded, t) == t - recorded >= 0

\* the stability discipline: unchanged for stability_wait
Stable(recorded, t) == t - recorded >= StabilityWait

\* a pending map without a cap
Uncapped(pend, cap) == {pend}

\* max_pending_files: when the map exceeds the cap the oldest entries are
\* evicted; the maps this may leave (entries of equal age: either)
Capped(pend, cap) ==
    IF Cardinality(PendingPaths(pend)) <= cap THEN {pend}
    ELSE {[path \in Paths |-> IF path \in K THEN pend[path] ELSE NoTime] :
            K \in {K \in SUBSET PendingPaths(pend) :
                      /\ Cardinality(K) = cap
                      /\ \A e \in PendingPaths(pend) \ K, k \in K : pend[e] <= pend[k]}}

NoCandidates(fs, j, pend) == {}

\* an enumeration that does not consult the journal
ScanAll(fs, j, pend) ==
    {path \in Paths : Present(fs, path) /\ pend[path] = NoTime}

\* enumeration of the directory: files that are there, are not in the
\* processed journal and are not pending yet
ScanCandidates(fs, j, pend) ==
    {path \in Paths : Present(fs, path) /\ path \notin j /\ pend[path] = NoTime}

\* the pending map with the enumerated files added as newly observed
Scanned(pend, fs, j) ==
    [path \in Paths |->
        IF path \in ScanCandidates(fs, j, pend) THEN fs[path].mtime ELSE pend[path]]

KeepAfterSend(recorded) == recorded

\* the entry of a path that was sent on the channel is removed
AfterSend(recorded) == NoTime

DropAfterFull(recorded) == NoTime

\* the entry of a stable path that found the channel full stays pending
AfterFull(recorded) == recorded

\* Start: enumerate the existing entries of the directory
WatcherStartup ==
    /\ wpc = "start"
    /\ wpc' = "run"
    /\ pending' \in Capped(Scanned(pending, files, journal), wcap)
    /\ wevicted' = (wevicted \/ Cardinality(PendingPaths(Scanned(pending, files, journal))) > wcap)
    /\ wevset' = wevset \cup (PendingPaths(Scanned(pending, files, journal))
                               \ PendingPaths(pending'))
    /\ UNCHANGED <<files, nq, novf, chan, journal, wticked, wcap, wbuf, fwrites, emits,
                   wblocked, wdropped, wstartup, wfile, wrestarted,
                   wprocessed, now, othersOfWatcher>>

\* the sensor writes a file (creates it, or rewrites it before it was
\* emitted); the notifier queues an event, or drops it and queues an
\* overflow error
FileWrite(path, notified) ==
    /\ wpc = "run"
    /\ files[path].st # "archived"
    /\ fwrites[path] < MaxWrites
    /\ emits[path] = 0
    /\ now + StabilityWait <= WatchMaxTime
    /\ files' = [files EXCEPT ![path] = FileAt(now)]
    /\ fwrites' = [fwrites EXCEPT ![path] = @ + 1]
    /\ IF notified
         THEN /\ nq' = nq \cup {path}
              /\ UNCHANGED <<novf, wdropped>>
         ELSE /\ novf' = TRUE
              /\ wdropped' = wdropped \cup {path}
              /\ UNCHANGED nq
    /\ UNCHANGED <<pending, chan, journal, wpc, wticked, wcap, wbuf, emits, wblocked,
                   wevicted, wevset, wstartup, wfile, wrestarted,
                   wprocessed, now, othersOfWatcher>>

\* the watcher handles a create/write event of the notifier
HandleEvent(path) ==
    /\ wpc = "run"
    /\ path \in nq
    /\ nq' = nq \ {path}
    /\ LET observed == IF Present(files, path)
                         THEN [pending EXCEPT ![path] = files[path].mtime]
                         ELSE pending
       IN /\ pending' \in Capped(observed, wcap)
          /\ wevicted' = (wevicted \/ Cardinality(PendingPaths(observed)) > wcap)
          /\ wevset' = wevset \cup (PendingPaths(observed) \ PendingPaths(pending'))
    /\ UNCHANGED <<files, novf, chan, journal, wpc, wticked, wcap, wbuf, fwrites, emits,
                   wblocked, wdropped, wstartup, wfile, wrestarted,
                   wprocessed, now, othersOfWatcher>>

\* the watcher handles the overflow error: full rescan of the directory
HandleOverflow ==
    /\ wpc = "run"
    /\ novf
    /\ novf' = FALSE
    /\ pending' \in Capped(Scanned(pending, files, journal), wcap)
    /\ wevicted' = (wevicted \/ Cardinality(PendingPaths(Scanned(pending, files, journal))) > wcap)
    /\ wevset' = wevset \cup (PendingPaths(Scanned(pending, files, journal))
                               \ PendingPaths(pending'))
    /\ UNCHANGED <<files, nq, chan, journal, wpc, wticked, wcap, wbuf, fwrites, emits,
                   wblocked, wdropped, wstartup, wfile, wrestarted,
                   wprocessed, now, othersOfWatcher>>

\* the periodic tick: entries whose file is gone are dropped, entries whose
\* file changed are refreshed, stable entries are sent while the channel has
\* room (non-blocking send) and stay pending otherwise
Tick ==
    /\ wpc = "run"
    /\ nq = {} /\ ~novf
    /\ ~wticked \/ now = WatchMaxTime
    /\ LET gone == {path \in PendingPaths(pending) : ~Present(files, path)}
           changed == {path \in PendingPaths(pending) \ gone : files[path].mtime # pending[path]}
           ready == {path \in PendingPaths(pending) \ (gone \cup changed) :
                        Stable(pending[path], now)}
           room == wbuf - Len(chan)
           n == IF Cardinality(ready) < room THEN Cardinality(ready) ELSE room
       IN \E E \in {E \in SUBSET ready : Cardinality(E) = n} :
            /\ chan' = chan \o SetToSeq(E)
            /\ pending' = [path \in Paths |->
                             IF path \in gone THEN NoTime
                             ELSE IF path \in changed THEN files[path].mtime
                             ELSE IF path \in E THEN AfterSend(pending[path])
                             ELSE IF path \in ready THEN AfterFull(pending[path])
                             ELSE pending[path]]
            /\ emits' = [path \in Paths |->
                            IF path \in E /\ emits[path] < 2 THEN emits[path] + 1
                            ELSE emits[path]]
            /\ wblocked' = wblocked \cup (ready \ E)
    /\ wticked' = TRUE
    /\ UNCHANGED <<files, nq, novf, journal, wpc, wcap, wbuf, fwrites, wevicted, wevset,
                   wdropped, wstartup, wfile, wrestarted,
                   wprocessed, now, othersOfWatcher>>

\* time passes by one check interval, once the watcher has handled what was
\* due in the current one
WatcherAdvance ==
    /\ wpc = "run"
    /\ wticked
    /\ nq = {} /\ ~novf
    /\ now < WatchMaxTime
    /\ now' = now + 1
    /\ wticked' = FALSE
    /\ UNCHANGED <<files, nq, novf, pending, chan, journal, wpc, wcap, wbuf, fwrites,
                   emits, wblocked, wevicted, wevset, wdropped, wstartup, wfile, wrestarted,
                   wprocessed, othersOfWatcher>>

\* the worker receives a path when it has archived the one before: a path
\* that was_processed is skipped, otherwise the file is processed and
\* mark_processed records it in the journal
Consume ==
    /\ wfile = NoPath
    /\ Len(chan) > 0
    /\ chan' = Tail(chan)
    /\ IF Head(chan) \in journal
         THEN UNCHANGED <<journal, wfile, wprocessed>>
         ELSE /\ journal' = journal \cup {Head(chan)}
              /\ wfile' = Head(chan)
              /\ wprocessed' = [wprocessed EXCEPT ![Head(chan)] = IF @ < 2 THEN @ + 1 ELSE @]
    /\ UNCHANGED <<files, nq, novf, pending, wpc, wticked, wcap, wbuf, fwrites, emits,
                   wblocked, wevicted, wevset, wdropped, wstartup, wrestarted, now, othersOfWatcher>>

\* the worker archives the file it has processed
ArchiveFile ==
    /\ wfile # NoPath
    /\ files' = [files EXCEPT ![wfile] = Archived]
    /\ wfile' = NoPath
    /\ UNCHANGED <<nq, novf, pending, chan, journal, wpc, wticked, wcap, wbuf, fwrites,
                   emits, wblocked, wevicted, wevset, wdropped, wstartup, wrestarted, wprocessed,
                   now, othersOfWatcher>>

\* the agent stops and is started again: the pending map, the channel, the
\* notifier's queue and the worker's file in hand are lost (the file is left
\* in place), the directory and the journal of the state DB are kept
WatcherRestart ==
    /\ wpc = "run"
    /\ ~wrestarted
    /\ wrestarted' = TRUE
    /\ wpc' = "start"
    /\ pending' = NoPending
    /\ chan' = <<>>
    /\ nq' = {}
    /\ novf' = FALSE
    /\ wfile' = NoPath
    /\ UNCHANGED <<files, journal, wticked, wcap, wbuf, fwrites, emits, wblocked,
                   wevicted, wevset, wdropped, wstartup, wprocessed, now, othersOfWatcher>>

NotReturned == "running"

StillRunning(pc) == pc

\* the position of the watcher once Start has seen ctx.Done()
AfterCancel(pc) == "stopped"

\* the caller cancels the context
Cancel ==
    /\ wpc \in {"start", "run"}
    /\ ~wcancelled
    /\ wcancelled' = TRUE
    /\ UNCHANGED <<watcherVars, wclosed, wret, othersOfCancel>>

\* Start's select loop takes the ctx.Done() case: the tick is stopped, the
\* events channel is closed and Start returns ctx.Err()
WatcherStop ==
    /\ wpc \in {"start", "run"}
    /\ wcancelled
    /\ wpc' = AfterCancel(wpc)
    /\ wclosed' = TRUE
    /\ wret' = "context.Canceled"
    /\ UNCHANGED <<files, nq, novf, pending, chan, journal, wticked, wcap, wbuf, fwrites,
                   emits, wblocked, wevicted, wevset, wdropped, wstartup, wfile, wrestarted,
                   wprocessed, wcancelled, othersOfCancel>>

\* no watcher
WatcherOff ==
    /\ files = [path \in Paths |-> NoFile]
    /\ nq = {}
    /\ novf = FALSE
    /\ pending = NoPending
    /\ chan = <<>>
    /\ journal = {}
    /\ wpc = "off"
    /\ wticked = FALSE
    /\ wcap = 0
    /\ wbuf = 0
    /\ fwrites = [path \in Paths |-> 0]
    /\ emits = [path \in Paths |-> 0]
    /\ wblocked = {}
    /\ wevicted = FALSE
    /\ wevset = {}
    /\ wdropped = {}
    /\ wstartup = {}
    /\ wfile = NoPath
    /\ wrestarted = FALSE
    /\ wprocessed = [path \in Paths |-> 0]
    /\ wcancelled = FALSE
    /\ wclosed = FALSE
    /\ wret = NotReturned

(***************************************************************************)
(* Rules loader (package rules, loader.go): a parsed rules file is a       *)
(* RulesConfig; an error is a string, "" for nil.                          *)
(***************************************************************************)
ValidSeverities == {"low", "medium", "high", "critical"}

\* Rule.Validate
RuleValidate(r) ==
    IF r.ID = "" THEN "rule ID is required"
    ELSE IF r.Title = "" THEN "rule title is required"
    ELSE IF r.Expr = "" THEN "rule expression is required"
    ELSE IF r.Severity = "" THEN "rule severity is required"
    ELSE IF r.Severity \notin ValidSeverities THEN "invalid severity"
    ELSE ""

\* CorrelationRule.Validate
CorrelationRuleValidate(cr) ==
    IF cr.ID = "" THEN "correlation ID is required"
    ELSE IF cr.Title = "" THEN "correlation title is required"
    ELSE IF cr.Expr = "" THEN "correlation expression is required"
    ELSE IF cr.Window = 0 THEN "correlation window is required"
    ELSE IF cr.Threshold <= 0 THEN "correlation threshold must be greater than 0"
    ELSE IF cr.Severity = "" THEN "correlation severity is required"
    ELSE IF cr.Severity \notin ValidSeverities THEN "invalid severity"
    ELSE IF \E i \in 1..Len(cr.GroupBy) : cr.GroupBy[i] = "" THEN "invalid group_by field"
    ELSE ""

\* BaselineRule.Validate
BaselineRuleValidate(br) ==
    IF br.ID = "" THEN "baseline ID is required"
    ELSE IF br.Title = "" THEN "baseline title is required"
    ELSE IF br.Expr = "" THEN "baseline expression is required"
    ELSE IF Len(br.Track) = 0 THEN "baseline track fields are required"
    ELSE IF br.Severity = "" THEN "baseline severity is required"
    ELSE IF br.Severity \notin ValidSeverities THEN "invalid severity"
    ELSE IF \E i \in 1..Len(br.Track) : br.Track[i] = "" THEN "invalid track field"
    ELSE ""

ItemValidate(section, item) ==
    IF section = "rules" THEN RuleValidate(item)
    ELSE IF section = "correlations" THEN CorrelationRuleValidate(item)
    ELSE BaselineRuleValidate(item)

SeenKept(seen, id) == seen

\* seen[id] = true
SeenAfter(seen, id) == seen \cup {id}

\* one loop of RulesConfig.Validate: duplicate check against seen, then the
\* item's own Validate
RECURSIVE ValidateSection(_, _, _, _)
ValidateSection(section, items, i, seen) ==
    IF i > Len(items) THEN [err |-> "", seen |-> seen]
    ELSE IF items[i].ID \in seen THEN [err |-> "duplicate ID", seen |-> seen]
    ELSE IF ItemValidate(section, items[i]) # "" THEN [err |-> "invalid item", seen |-> seen]
    ELSE ValidateSection(section, items, i + 1, SeenAfter(seen, items[i].ID))

\* RulesConfig.Validate
RulesConfigValidate(rc) ==
    LET r == ValidateSection("rules", rc.Rules, 1, {})
    IN IF r.err # "" THEN r.err
       ELSE LET c == ValidateSection("correlations", rc.Correlations, 1, r.seen)
            IN IF c.err # "" THEN c.err
               ELSE ValidateSection("baselines", rc.Baselines, 1, c.seen).err

EmptyConfig == [Rules |-> <<>>, Correlations |-> <<>>, Baselines |-> <<>>]

NoConfig == [Rules |-> <<"nil">>, Correlations |-> <<>>, Baselines |-> <<>>]

\* RulesConfig.Merge, and the appends at the end of the walk function
Merge(rc, other) ==
    [Rules |-> rc.Rules \o other.Rules,
     Correlations |-> rc.Correlations \o other.Correlations,
     Baselines |-> rc.Baselines \o other.Baselines]

\* LoadRulesFile, after the file was read and parsed
LoadRulesFile(config) ==
    IF RulesConfigValidate(config) # ""
      THEN [config |-> NoConfig, err |-> "invalid rules configuration"]
      ELSE [config |-> config, err |-> ""]

NoIds == [id \in {} |-> 0]

\* LoadRulesDir, one of the three duplicate loops of the walk function:
\* idToFile after the loop, or the pair of files of the first duplicate
RECURSIVE DupSection(_, _, _, _)
DupSection(items, i, path, idToFile) ==
    IF i > Len(items) THEN [err |-> "", both |-> <<>>, idToFile |-> idToFile]
    ELSE IF items[i].ID \in DOMAIN idToFile
      THEN [err |-> "duplicate ID", both |-> <<idToFile[items[i].ID], path>>,
            idToFile |-> idToFile]
    ELSE DupSection(items, i + 1, path, (items[i].ID :> path) @@ idToFile)

\* LoadRulesDir, the walk function for the files from the i-th on
RECURSIVE WalkDir(_, _, _, _)
WalkDir(parsed, i, idToFile, merged) ==
    IF i > Len(parsed) THEN [config |-> merged, err |-> "", both |-> <<>>]
    ELSE LET r == DupSection(parsed[i].Rules, 1, i, idToFile)
             c == DupSection(parsed[i].Correlations, 1, i, r.idToFile)
             b == DupSection(parsed[i].Baselines, 1, i, c.idToFile)
         IN IF r.err # "" THEN [config |-> NoConfig, err |-> r.err, both |-> r.both]
            ELSE IF c.err # "" THEN [config |-> NoConfig, err |-> c.err, both |-> c.both]
            ELSE IF b.err # "" THEN [config |-> NoConfig, err |-> b.err, both |-> b.both]
            ELSE WalkDir(parsed, i + 1, b.idToFile, Merge(merged, parsed[i]))

\* LoadRulesDir, after the parsed were read and parsed
LoadRulesDir(parsed) ==
    LET w == WalkDir(parsed, 1, NoIds, EmptyConfig)
    IN IF w.err # "" THEN [config |-> NoConfig, err |-> w.err]
       ELSE IF RulesConfigValidate(w.config) # ""
         THEN [config |-> NoConfig, err |-> "invalid merged rules configuration"]
       ELSE [config |-> w.config, err |-> ""]

\* Load: a directory or a file
Load(input) ==
    IF input.isDir THEN LoadRulesDir(input.files) ELSE LoadRulesFile(input.files[1])

\* ---- the rules files the loader is run on ----
LoaderIds == {"a", "b"}

SampleRule(id, severity) ==
    [ID |-> id, Title |-> "t", Expr |-> "true", Severity |-> severity, Enabled |-> TRUE]

SampleCorrelation(id) ==
    [ID |-> id, Title |-> "t", Expr |-> "true", Window |-> 1, Threshold |-> 1,
     Severity |-> "high", GroupBy |-> <<>>, Enabled |-> TRUE]

SampleBaseline(id) ==
    [ID |-> id, Title |-> "t", Expr |-> "true", Track |-> <<"f">>,
     Severity |-> "low", Enabled |-> TRUE]

SampleRules == {SampleRule(id, severity) : id \in LoaderIds, severity \in {"low", "urgent"}}

\* files with up to two rules, up to one correlation and up to one baseline
SampleFiles ==
    {[Rules |-> rs, Correlations |-> cs, Baselines |-> bs] :
        rs \in {<<>>} \cup {<<r>> : r \in SampleRules}
                      \cup {<<r, q>> : r \in SampleRules, q \in SampleRules},
        cs \in {<<>>} \cup {<<SampleCorrelation(id)>> : id \in LoaderIds},
        bs \in {<<>>} \cup {<<SampleBaseline(id)>> : id \in LoaderIds}}

\* a single file, or a directory of up to two files
LoaderInputs ==
    {[isDir |-> FALSE, files |-> <<f>>] : f \in SampleFiles}
    \cup {[isDir |-> TRUE, files |-> fs] :
            fs \in {<<>>} \cup {<<f>> : f \in SampleFiles}
                          \cup {<<f, g>> : f \in SampleFiles, g \in SampleFiles}}

NotLoaded == [config |-> NoConfig, err |-> "not loaded"]

\* the agent loads the rules path
LoadAction ==
    /\ lresult = NotLoaded
    /\ lresult' = Load(linput)
    /\ UNCHANGED <<linput, othersOfLoader>>

LoaderOff ==
    /\ linput = [isDir |-> FALSE, files |-> <<EmptyConfig>>]
    /\ lresult = NotLoaded

(***************************************************************************)
(* Rules engine (package rules, engine.go): LoadRules, and Evaluate run    *)
(* by a worker with no synchronisation between the two.                    *)
(***************************************************************************)
\* compileExpression: nil for a boolean CEL expression, an error otherwise
\* ("1" compiles to an int, "1 +" does not parse)
compileExpression(expr) ==
    IF expr = "true" THEN ""
    ELSE IF expr = "1" THEN "expression must return boolean"
    ELSE "CEL compilation error"

NeverSkipped(item) == FALSE

\* if !rule.Enabled { continue }
Skipped(item) == ~item.Enabled

\* the sections in the order LoadRules compiles them
NextSection(section) ==
    IF section = "Rules" THEN "Correlations"
    ELSE IF section = "Correlations" THEN "Baselines"
    ELSE "done"

EngineSets == [Rules |-> engRules, Correlations |-> engCorrelations, Baselines |-> engBaselines]

\* ---- the configurations LoadRules is called with ----
EngineRule(id, enabled, expr) ==
    [SampleRule(id, "low") EXCEPT !.Enabled = enabled, !.Expr = expr]

EngineRules ==
    {EngineRule(id, enabled, expr) : id \in LoaderIds, enabled \in BOOLEAN, expr \in {"true", "1"}}

\* up to two rules, up to one correlation ("c") and up to one baseline
\* ("d"), as the loader accepts them
EngineConfigs ==
    {rc \in
        {[Rules |-> rs, Correlations |-> cs, Baselines |-> bs] :
            rs \in {<<>>} \cup {<<r>> : r \in EngineRules}
                          \cup {<<r, q>> : r \in EngineRules, q \in EngineRules},
            cs \in {<<>>} \cup {<<[SampleCorrelation("c") EXCEPT !.Enabled = en, !.Expr = "1 +"]>> :
                                    en \in BOOLEAN}
                          \cup {<<SampleCorrelation("c")>>},
            bs \in {<<>>} \cup {<<[SampleBaseline("d") EXCEPT !.Enabled = en, !.Expr = "1 +"]>> :
                                    en \in BOOLEAN}
                          \cup {<<SampleBaseline("d")>>}} :
        RulesConfigValidate(rc) = ""}

\* the configurations the agent starts with
StartupConfigs ==
    {[Rules |-> <<EngineRule("a", TRUE, "true"), EngineRule("b", TRUE, "true")>>,
      Correlations |-> <<SampleCorrelation("c")>>,
      Baselines |-> <<SampleBaseline("d")>>],
     [Rules |-> <<EngineRule("b", TRUE, "true")>>,
      Correlations |-> <<>>,
      Baselines |-> <<>>]}

\* LoadRules, entry: the three slices are replaced by new empty ones
LoadRulesCall(rc) ==
    /\ lrPc = "idle"
    /\ lrCalls < MaxLoads
    /\ IF lrCalls = 0 THEN rc \in StartupConfigs ELSE rc \in EngineConfigs
    /\ lrCalls' = lrCalls + 1
    /\ lrPrev' = EngineSets
    /\ lrCfg' = rc
    /\ engRules' = <<>>
    /\ engCorrelations' = <<>>
    /\ engBaselines' = <<>>
    /\ lrPc' = "Rules"
    /\ lrIdx' = 1
    /\ lrErr' = "running"
    /\ UNCHANGED <<evPc, evLen, evSeen, othersOfEngine>>

\* LoadRules, one iteration of one of its three compile loops (or the end of
\* a loop): a disabled item is skipped, a compile error returns, a compiled
\* item is appended
LoadRulesStep ==
    /\ lrPc \in {"Rules", "Correlations", "Baselines"}
    /\ IF lrIdx > Len(lrCfg[lrPc])
         THEN /\ lrIdx' = 1
              /\ lrPc' = IF NextSection(lrPc) = "done" THEN "idle" ELSE NextSection(lrPc)
              /\ lrErr' = IF NextSection(lrPc) = "done" THEN "" ELSE lrErr
              /\ UNCHANGED <<engRules, engCorrelations, engBaselines>>
         ELSE LET item == lrCfg[lrPc][lrIdx]
              IN IF Skipped(item)
                   THEN /\ lrIdx' = lrIdx + 1
                        /\ UNCHANGED <<lrPc, lrErr, engRules, engCorrelations, engBaselines>>
                 ELSE IF compileExpression(item.Expr) # ""
                   THEN /\ lrPc' = "idle"
                        /\ lrErr' = "failed to compile"
                        /\ lrIdx' = 1
                        /\ UNCHANGED <<engRules, engCorrelations, engBaselines>>
                 ELSE /\ lrIdx' = lrIdx + 1
                      /\ engRules' = IF lrPc = "Rules" THEN Append(engRules, item) ELSE engRules
                      /\ engCorrelations' = IF lrPc = "Correlations"
                                              THEN Append(engCorrelations, item)
                                              ELSE engCorrelations
                      /\ engBaselines' = IF lrPc = "Baselines"
                                           THEN Append(engBaselines, item)
                                           ELSE engBaselines
                      /\ UNCHANGED <<lrPc, lrErr>>
    /\ UNCHANGED <<lrCfg, lrPrev, lrCalls, evPc, evLen, evSeen, othersOfEngine>>

\* what an unsynchronised read of e.rules yields: the slice as it is, or,
\* while LoadRules is writing it, also the slice of before the call
ReadRules ==
    IF lrPc = "idle" THEN {engRules} ELSE {engRules, lrPrev.Rules}

\* Evaluate, entry: if len(e.rules) == 0 { return nil, nil }; the workers
\* start once the LoadRules of the startup has returned
EvaluateLen ==
    /\ evPc = "idle"
    /\ lrCalls > 1 \/ (lrCalls = 1 /\ lrPc = "idle")
    /\ \E read \in ReadRules :
         /\ evLen' = Len(read)
         /\ evPc' = IF Len(read) = 0 THEN "nil" ELSE "range"
    /\ UNCHANGED evSeen
    /\ UNCHANGED <<engRules, engCorrelations, engBaselines, lrPc, lrCfg, lrIdx, lrErr,
                   lrPrev, lrCalls, othersOfEngine>>

\* Evaluate: return nil, nil
EvaluateNil ==
    /\ evPc = "nil"
    /\ evPc' = "idle"
    /\ evSeen' = <<>>
    /\ UNCHANGED <<engRules, engCorrelations, engBaselines, lrPc, lrCfg, lrIdx, lrErr,
                   lrPrev, lrCalls, evLen, othersOfEngine>>

\* Evaluate, the loop: for _, compiled := range e.rules
EvaluateRange ==
    /\ evPc = "range"
    /\ \E read \in ReadRules : evSeen' = read
    /\ evPc' = "idle"
    /\ UNCHANGED <<engRules, engCorrelations, engBaselines, lrPc, lrCfg, lrIdx, lrErr,
                   lrPrev, lrCalls, evLen, othersOfEngine>>

\* NewEngine
EngineOff ==
    /\ engRules = <<>>
    /\ engCorrelations = <<>>
    /\ engBaselines = <<>>
    /\ lrPc = "idle"
    /\ lrCfg = EmptyConfig
    /\ lrIdx = 1
    /\ lrErr = ""
    /\ lrPrev = EmptyConfig
    /\ lrCalls = 0
    /\ evPc = "idle"
    /\ evLen = 0
    /\ evSeen = <<>>

(***************************************************************************)
(* Spool decoder (package spool): a file is a payload wrapped in zero or   *)
(* more compression layers. sizes[1] is the size of the file, sizes[i + 1] *)
(* the size of what removing i layers yields, the last one the payload's.  *)
(* Every layer is a well-formed gzip or zstd stream.                       *)
(***************************************************************************)
\* Decoder.maxFileSize, maxDecompressedSize, maxDecompressionRate (scaled down)
DecMaxFileSize == 3

DecMaxDecompressedSize == 4

DecMaxDecompressionRate == 2

\* layers of compression the decoder removes
DecMaxLayers == 2

LayersOf(input) == Len(input.sizes) - 1

PayloadSize(input) == input.sizes[Len(input.sizes)]

NeverExceeded(out, in) == FALSE

\* the expansion ratio is above max_decompression_rate
RateExceeded(out, in) == out > DecMaxDecompressionRate * in

NeverTooDeep(depth) == FALSE

\* a further layer was found after DecMaxLayers were removed
TooDeep(depth) == depth >= DecMaxLayers

Failure(err) == [err |-> err, events |-> 0]

\* decoding of the decompressed payload: a single message, else a batch of
\* messages, else an error
DecodePayload(input) ==
    IF input.payload = "single" THEN [err |-> "", events |-> 1]
    ELSE IF input.payload = "batch" THEN [err |-> "", events |-> 2]
    ELSE Failure("Decode")

\* removal of the layers from depth on: the results the decoder may return
\* (where two limits are exceeded by one layer, either error)
RECURSIVE Decompress(_, _)
Decompress(input, depth) ==
    IF depth = LayersOf(input) THEN {DecodePayload(input)}
    ELSE IF TooDeep(depth) THEN {Failure("DepthExceeded")}
    ELSE LET out == input.sizes[depth + 2]
             big == out > DecMaxDecompressedSize
             bomb == RateExceeded(out, input.sizes[1])
         IN IF big \/ bomb
              THEN (IF big THEN {Failure("TooLarge")} ELSE {})
                   \cup (IF bomb THEN {Failure("BombSuspected")} ELSE {})
              ELSE Decompress(input, depth + 1)

\* DecodeEvents: the results it may return for a file
DecodeEvents(input) ==
    IF input.sizes[1] = 0 THEN {Failure("EmptyFile")}
    ELSE IF input.sizes[1] > DecMaxFileSize THEN {Failure("TooLarge")}
    ELSE Decompress(input, 0)

\* ---- the files the decoder is run on ----
DecSizes == 1..MaxSize

DecoderInputs ==
    {[sizes |-> ss, payload |-> p] :
        ss \in {<<0>>} \cup {<<a>> : a \in DecSizes}
                       \cup {<<a, b>> : a \in DecSizes, b \in DecSizes}
                       \cup {<<a, b, c>> : a \in DecSizes, b \in DecSizes, c \in DecSizes}
                       \cup {<<a, b, c, d>> : a \in DecSizes, b \in DecSizes, c \in DecSizes,
                                              d \in DecSizes},
        p \in {"single", "batch", "garbage"}}

NotDecoded == [err |-> "not decoded", events |-> 0]

\* a worker decodes the file
DecodeAction ==
    /\ dresult = NotDecoded
    /\ dresult' \in DecodeEvents(dinput)
    /\ UNCHANGED <<dinput, othersOfDecoder>>

DecoderOff ==
    /\ dinput = [sizes |-> <<0>>, payload |-> "single"]
    /\ dresult = NotDecoded

(***************************************************************************)
(* Agent configuration (package config): the shipper block of              *)
(* Config.ValidateWithOptions.  An endpoint is the text of the setting,    *)
(* given by its scheme and host as written; url.Parse lowers the scheme    *)
(* and Hostname strips the brackets of an IPv6 literal.                    *)
(***************************************************************************)
MinAPIKeyLen == 16

EndpointSchemes == {"https", "http", "HTTP", "ftp", ""}

EndpointHosts == {"localhost", "127.0.0.1", "[::1]", "example.com", ""}

\* shipper.endpoint: empty, not parsable, or scheme://host/path
Endpoints ==
    {[kind |-> "empty", scheme |-> "", host |-> ""],
     [kind |-> "unparsable", scheme |-> "", host |-> ""]}
    \cup [kind : {"url"}, scheme : EndpointSchemes, host : EndpointHosts]

ToLower(str) == IF str = "HTTP" THEN "http" ELSE str

\* URL.Hostname(): the host without port and without the brackets of an
\* IPv6 literal
Hostname(host) == IF host = "[::1]" THEN "::1" ELSE host

\* url.Parse
UrlParse(endpoint) ==
    IF endpoint.kind = "unparsable"
      THEN [err |-> "parse", Scheme |-> "", Host |-> ""]
      ELSE [err |-> "", Scheme |-> ToLower(endpoint.scheme), Host |-> endpoint.host]

\* the shipper block of ValidateWithOptions up to the api key
ValidateShipper(cfg) ==
    IF cfg.Endpoint.kind = "empty" THEN "shipper.endpoint is required"
    ELSE LET u == UrlParse(cfg.Endpoint)
         IN IF u.err # "" THEN "shipper.endpoint invalid URL"
            ELSE IF /\ u.Scheme = "http"
                    /\ Hostname(u.Host) \notin {"localhost", "127.0.0.1", "::1"}
                   THEN "shipper.endpoint must use HTTPS (not HTTP) for remote hosts"
            ELSE IF cfg.APIKeyLen = 0 THEN "shipper.api_key is required"
            ELSE IF cfg.APIKeyLen < MinAPIKeyLen THEN "shipper.api_key too short (min 16 characters)"
            ELSE ""

ValidateWithOptions(cfg, skipShipper) ==
    IF ~skipShipper THEN ValidateShipper(cfg) ELSE ""

ConfigInputs ==
    [cfg : [Endpoint : Endpoints, APIKeyLen : {0, MinAPIKeyLen - 1, MinAPIKeyLen}],
     skipShipper : BOOLEAN]

NotValidated == "not validated"

ValidateAction ==
    /\ cresult = NotValidated
    /\ cresult' = ValidateWithOptions(cinput.cfg, cinput.skipShipper)
    /\ UNCHANGED <<cinput, othersOfConfig>>

ConfigOff ==
    /\ cinput = [cfg |-> [Endpoint |-> [kind |-> "empty", scheme |-> "", host |-> ""],
                          APIKeyLen |-> 0],
                 skipShipper |-> TRUE]
    /\ cresult = NotValidated

(***************************************************************************)
(* State DB bucket shipped_queue: enqueue_signal and delete_signal.  A     *)
(* record is a serialized signal: its id and the rest of its content.      *)
(***************************************************************************)
QueueIds == {"s1", "s2", "s3"}

QueueSignals == [ID : QueueIds, Content : {"x", "y", "z"}]

InsertAlways(recs, signal) == recs \cup {signal}

\* enqueue_signal: insert-or-ignore keyed by signal id
enqueue_signal(recs, signal) ==
    IF \E r \in recs : r.ID = signal.ID THEN recs ELSE recs \cup {signal}

\* delete_signal
delete_signal(recs, id) == {r \in recs : r.ID # id}

NoOp == [op |-> "none", ID |-> "", Content |-> ""]

\* the shipper enqueues a signal
EnqueueSignal(signal) ==
    /\ sqrecs' = enqueue_signal(sqrecs, signal)
    /\ sqop' = [op |-> "enqueue", ID |-> signal.ID, Content |-> signal.Content]
    /\ UNCHANGED othersOfQueue

\* the shipper deletes a delivered or poisoned signal
DeleteSignal(id) ==
    /\ \E r \in sqrecs : r.ID = id
    /\ sqrecs' = delete_signal(sqrecs, id)
    /\ sqop' = [op |-> "delete", ID |-> id, Content |-> ""]
    /\ UNCHANGED othersOfQueue

QueueOff ==
    /\ sqrecs = {}
    /\ sqop = NoOp

(***************************************************************************)
(* The rule loops of the three evaluation calls on one event:              *)
(* Engine.Evaluate, WindowManager.Process and baseline Processor.Process.  *)
(* A rule is named by its id; what follows an accepted filter is reduced   *)
(* to what the state DB answers.                                           *)
(***************************************************************************)
EvalKinds == {"simple", "correlation", "baseline"}

\* the rules handed to the call, in order
LoopRules == <<"r1", "r2">>

\* what the state DB answers after a filter accepted the event:
\* Evaluate does not use it; the window manager fires, keeps the window or
\* gets an error; IsFirstSeen answers first, seen or fails
DbAnswers(kind) ==
    IF kind = "simple" THEN {"ok"}
    ELSE IF kind = "correlation" THEN {"fire", "keep", "err"}
    ELSE {"first", "seen", "err"}

LoopOutcomes(kind) == [Range(LoopRules) -> [eval : EvalResults, db : DbAnswers(kind)]]

NoReturn == [matches |-> <<>>, err |-> "none"]

\* a loop that gives up at the first expression that fails
AbortOnEvalFailure == "return"

\* the loops log an evaluation error or a non-boolean result and continue
OnEvalFailure == "continue"

\* return nil, fmt.Errorf(...)
ReturnError == [matches |-> <<>>, err |-> "error"]

\* the call begins; WindowManager.Process converts the message before its
\* loop and returns the error of a failing conversion
EvalCall(kind, out, tomap) ==
    /\ lpPc \in {"idle", "done"}
    /\ lpKind' = kind
    /\ lpOut' = out
    /\ lpToMap' = tomap
    /\ lpIdx' = 1
    /\ lpEvaluated' = {}
    /\ lpMatches' = <<>>
    /\ lpSeen' = {}
    /\ IF kind = "correlation" /\ tomap = "fails"
         THEN lpPc' = "done" /\ lpRet' = ReturnError
         ELSE lpPc' = "loop" /\ lpRet' = NoReturn
    /\ UNCHANGED othersOfLoop

\* one iteration of the loop over the rules
EvalIter ==
    /\ lpPc = "loop"
    /\ lpIdx <= Len(LoopRules)
    /\ LET id == LoopRules[lpIdx]
           o == lpOut[id]
           continue == /\ lpPc' = "loop"
                       /\ lpIdx' = lpIdx + 1
                       /\ lpRet' = lpRet
           fail == /\ lpPc' = "done"
                   /\ lpIdx' = lpIdx
                   /\ lpRet' = ReturnError
       IN  /\ lpEvaluated' = lpEvaluated \cup {id}
           /\ IF o.eval \in {"error", "nonbool"} THEN
                  /\ IF OnEvalFailure = "continue" THEN continue ELSE fail
                  /\ UNCHANGED <<lpMatches, lpSeen>>
              ELSE IF o.eval = "false" THEN
                  continue /\ UNCHANGED <<lpMatches, lpSeen>>
              ELSE IF lpKind = "simple" THEN
                  continue /\ lpMatches' = Append(lpMatches, id) /\ UNCHANGED lpSeen
              ELSE IF lpKind = "correlation" THEN
                  IF o.db = "err" THEN fail /\ UNCHANGED <<lpMatches, lpSeen>>
                  ELSE /\ continue
                       /\ lpMatches' = IF o.db = "fire" THEN Append(lpMatches, id)
                                                         ELSE lpMatches
                       /\ UNCHANGED lpSeen
              ELSE
                  IF lpToMap = "fails" \/ o.db = "err"
                    THEN fail /\ UNCHANGED <<lpMatches, lpSeen>>
                    ELSE /\ continue
                         /\ lpSeen' = IF o.db = "first" THEN lpSeen \cup {id} ELSE lpSeen
                         /\ lpMatches' = IF o.db = "first" THEN Append(lpMatches, id)
                                                           ELSE lpMatches
    /\ UNCHANGED <<lpKind, lpOut, lpToMap, othersOfLoop>>

\* return matches, nil
EvalReturn ==
    /\ lpPc = "loop"
    /\ lpIdx > Len(LoopRules)
    /\ lpPc' = "done"
    /\ lpRet' = [matches |-> lpMatches, err |-> "nil"]
    /\ UNCHANGED <<lpKind, lpOut, lpToMap, lpIdx, lpEvaluated, lpMatches, lpSeen, othersOfLoop>>

LoopOff ==
    /\ lpPc = "idle"
    /\ lpKind = "simple"
    /\ lpOut = [id \in Range(LoopRules) |-> [eval |-> "false", db |-> "ok"]]
    /\ lpToMap = "ok"
    /\ lpIdx = 1
    /\ lpEvaluated = {}
    /\ lpMatches = <<>>
    /\ lpSeen = {}
    /\ lpRet = NoReturn

(***************************************************************************)
(* Two evaluator workers inside WindowManager.Process for the same rule    *)
(* and group.  The manager holds no lock; each state DB call is one        *)
(* transaction, and a worker's steps interleave with the other worker's.   *)
(***************************************************************************)
ConcWorkers == {1, 2}

\* events each worker takes from its file
ConcEvents == 2

\* the wall clock during the calls; every event lies within the window
ConcNow == 1

ConcRule == CountRule

\* the n-th event of worker w: matching, group f=a, told apart by g and time
ConcEvent(w, n) ==
    [time |-> n - 1,
     fields |-> [f \in {FieldF, FieldG} |->
                    IF f = FieldF THEN <<"a">> ELSE IF w = 1 THEN <<"x">> ELSE <<"y">>]]

ConcKey == extractGroupKey(ConcEvent(1, 1), ConcRule.GroupBy)

ConcBucket == <<ConcRule.ID, ConcKey>>

\* wm.db.StoreWindowEvent(rule.Rule.ID, groupKey, eventMap)
ConcStore(w) ==
    /\ cwPc[w] = "idle"
    /\ cwN[w] < ConcEvents
    /\ cwN' = [cwN EXCEPT ![w] = @ + 1]
    /\ cwWindows' = StoreWindowEvent(cwWindows, ConcRule.ID, ConcKey,
                                     StoredEvent(ConcEvent(w, cwN[w] + 1)))
    /\ cwPc' = [cwPc EXCEPT ![w] = "stored"]
    /\ UNCHANGED <<now, cwRecent, cwMatches, othersOfConc>>

\* wm.db.GetWindowEvents, then the filter and the truncation on the copy
ConcGet(w) ==
    /\ cwPc[w] = "stored"
    /\ cwRecent' = [cwRecent EXCEPT
                      ![w] = TruncateOldest(FilterRecent(cwWindows[ConcBucket], now,
                                                         ConcRule.Window))]
    /\ cwPc' = [cwPc EXCEPT ![w] = "read"]
    /\ UNCHANGED <<now, cwWindows, cwN, cwMatches, othersOfConc>>

ConcFires(w) == countEvents(cwRecent[w], ConcRule) >= ConcRule.Threshold

\* the count, and wm.db.ReplaceWindowEvents with nil or with recentEvents
ConcReplace(w) ==
    /\ cwPc[w] = "read"
    /\ IF ConcFires(w)
         THEN /\ cwMatches' = cwMatches + 1
              /\ cwWindows' = ReplaceWindowEvents(cwWindows, ConcRule.ID, ConcKey, <<>>)
         ELSE /\ cwMatches' = cwMatches
              /\ cwWindows' = ReplaceWindowEvents(cwWindows, ConcRule.ID, ConcKey, cwRecent[w])
    /\ cwRecent' = [cwRecent EXCEPT ![w] = <<>>]
    /\ cwPc' = [cwPc EXCEPT ![w] = "idle"]
    /\ UNCHANGED <<now, cwN, othersOfConc>>

ConcStart ==
    /\ cwWindows = [b \in {ConcBucket} |-> <<>>]
    /\ cwPc = [w \in ConcWorkers |-> "idle"]
    /\ cwN = [w \in ConcWorkers |-> 0]
    /\ cwRecent = [w \in ConcWorkers |-> <<>>]
    /\ cwMatches = 0

ConcOff == ConcStart

(***************************************************************************)
(* generateSignalID as a function of its four arguments.                   *)
(***************************************************************************)
\* rule ids (any non-empty string), host ids (agent.id, any string of at
\* most 255 characters) and identifiers (a group key joins its segments
\* with "|")
GenRuleIDs == {<<"r">>, <<"r", "|", "0">>}

GenHosts == {<<"h">>, <<"g">>, <<"h", "|", "a">>, <<"1", "|", "h">>}

GenIdentifiers == {<<"b">>, <<"a", "|", "b">>}

\* timestamps, in ticks: two whole seconds
GenTimes == 0..(2 * TicksPerSecond - 1)

GenArgs == [ruleID : GenRuleIDs, ts : GenTimes, host : GenHosts, identifier : GenIdentifiers]

\* two calls of generateSignalID
GenerateIDs ==
    /\ gidIDs = <<>>
    /\ gidIDs' = [i \in 1..2 |-> generateSignalID(gidArgs[i].ruleID, gidArgs[i].ts,
                                                  gidArgs[i].host, gidArgs[i].identifier)]
    /\ UNCHANGED <<gidArgs, othersOfGenId>>

GenIdOff ==
    /\ gidArgs = <<>>
    /\ gidIDs = <<>>

\* the strings "|" occurs in
HasBar(str) == \E i \in 1..Len(str) : str[i] = "|"

\* the two calls agree on rule id, host id, identifier and the RFC3339
\* rendering of the timestamp
SameValues(a, b) ==
    /\ a.ruleID = b.ruleID
    /\ a.host = b.host
    /\ a.identifier = b.identifier
    /\ FormatRFC3339(a.ts) = FormatRFC3339(b.ts)

(***************************************************************************)
(* Specifications.                                                         *)
(***************************************************************************)
LineageStart ==
    /\ nodes = [k \in {} |-> [Parent |-> ZeroKey]]
    /\ LineageIdle

InitWindow ==
    /\ LineageStart
    /\ ShipperStart
    /\ WatcherOff
    /\ ConfigOff
    /\ QueueOff
    /\ ConcOff
    /\ GenIdOff
    /\ LoopOff
    /\ LoaderOff
    /\ EngineOff
    /\ DecoderOff
    /\ BaselineStart
    /\ SignalStart
    /\ now = 0
    /\ corrRules \in CorrRuleSets
    /\ windows = [b \in WindowBuckets |-> <<>>]
    /\ wresult = <<>>
    /\ whist = NoHist
    /\ wlast = NotProcessed
    /\ wlastGC = 0

NextWindow ==
    \/ \E event \in WindowEventsFor(corrRules, now) : WindowProcess(event)
    \/ ClockTick

SpecWindow == InitWindow /\ [][NextWindow]_vars

InitConc ==
    /\ LineageStart
    /\ WindowStart
    /\ BaselineStart
    /\ SignalStart
    /\ ShipperStart
    /\ WatcherOff
    /\ ConfigOff
    /\ QueueOff
    /\ LoopOff
    /\ LoaderOff
    /\ EngineOff
    /\ DecoderOff
    /\ ConcStart
    /\ GenIdOff
    /\ now = ConcNow

NextConc ==
    \E w \in ConcWorkers :
        \/ ConcStore(w)
        \/ ConcGet(w)
        \/ ConcReplace(w)

SpecConc == InitConc /\ [][NextConc]_vars

InitGenId ==
    /\ LineageStart
    /\ WindowStart
    /\ BaselineStart
    /\ SignalStart
    /\ ShipperStart
    /\ WatcherOff
    /\ ConfigOff
    /\ QueueOff
    /\ ConcOff
    /\ LoopOff
    /\ LoaderOff
    /\ EngineOff
    /\ DecoderOff
    /\ now = 0
    /\ gidArgs \in [1..2 -> GenArgs]
    /\ gidIDs = <<>>

NextGenId == GenerateIDs

SpecGenId == InitGenId /\ [][NextGenId]_vars

InitLineage ==
    /\ ShipperStart
    /\ WatcherOff
    /\ ConfigOff
    /\ QueueOff
    /\ ConcOff
    /\ GenIdOff
    /\ LoopOff
    /\ LoaderOff
    /\ EngineOff
    /\ DecoderOff
    /\ nodes \in LineageCaches
    /\ LineageIdle
    /\ now = 0
    /\ WindowStart
    /\ BaselineStart
    /\ SignalStart

NextLineage ==
    \/ \E key \in LineageKeys, d \in DepthArgs : LineageCall(key, d)
    \/ LineageLoop
    \/ LineageReturn

SpecLineage == InitLineage /\ [][NextLineage]_vars

\* The walk is sequential code under the read lock: a started call keeps running.
SpecLineageFair == SpecLineage /\ WF_vars(LineageLoop)

\* The store as the agent fills it: empty at NewStore, then execution events
\* and Lineage calls.
InitStore ==
    /\ LineageStart
    /\ WindowStart
    /\ BaselineStart
    /\ SignalStart
    /\ ShipperStart
    /\ WatcherOff
    /\ ConfigOff
    /\ QueueOff
    /\ ConcOff
    /\ GenIdOff
    /\ LoopOff
    /\ LoaderOff
    /\ EngineOff
    /\ DecoderOff
    /\ now = 0

NextStore ==
    \/ \E boot \in Boots, ev \in Executions : UpsertFromExecution(boot, ev)
    \/ StoreClockTick
    \/ \E key \in StoreKeys, d \in {0, 1} : LineageCall(key, d)
    \/ LineageLoop
    \/ LineageReturn

SpecStore == InitStore /\ [][NextStore]_vars

InitBaselineWith(workers) ==
    /\ LineageStart
    /\ ShipperStart
    /\ WatcherOff
    /\ ConfigOff
    /\ QueueOff
    /\ ConcOff
    /\ GenIdOff
    /\ LoopOff
    /\ LoaderOff
    /\ EngineOff
    /\ DecoderOff
    /\ WindowStart
    /\ SignalStart
    /\ now = 0
    /\ firstSeen = {}
    /\ bworkers = workers
    /\ bw = [w \in workers |-> WorkerIdle]
    /\ bresult = <<>>
    /\ bcalled = [t \in BaselineTuples |-> FALSE]
    /\ bemitted = [t \in BaselineTuples |-> 0]
    /\ blearning \in LearningPeriods

\* the steps of the workers
NextWorkers ==
    \/ \E w \in bworkers, event \in BaselineEvents(now) : BaselineSkip(w, event)
    \/ \E w \in bworkers, event \in BaselineEvents(now) : BaselineBegin(w, event)
    \/ \E w \in bworkers : BaselineIsFirstSeen(w)
    \/ \E w \in bworkers : BaselineReturn(w)

NextBaseline == NextWorkers \/ ClockTick

\* one evaluator worker
InitBaseline == InitBaselineWith({1})

SpecBaseline == InitBaseline /\ [][NextBaseline]_vars

\* two evaluator workers sharing the state DB, within one clock instant
InitBaselineConc == InitBaselineWith({1, 2})

SpecBaselineConc == InitBaselineConc /\ [][NextWorkers]_vars


\* two runs over one stream of matches, each with its own wall clock
InitSignal ==
    /\ LineageStart
    /\ ShipperStart
    /\ WatcherOff
    /\ ConfigOff
    /\ QueueOff
    /\ ConcOff
    /\ GenIdOff
    /\ LoopOff
    /\ LoaderOff
    /\ EngineOff
    /\ DecoderOff
    /\ WindowStart
    /\ BaselineStart
    /\ now = 0
    /\ sstream \in [1..StreamLen -> SignalMatches]
    /\ sclock = [r \in Runs |-> 0]
    /\ spos = [r \in Runs |-> 0]
    /\ ssignals = [r \in Runs |-> {}]

NextSignal ==
    \/ \E r \in Runs : GenerateSignal(r)
    \/ \E r \in Runs : RunClockTick(r)

SpecSignal == InitSignal /\ [][NextSignal]_vars


InitShipper ==
    /\ LineageStart
    /\ WindowStart
    /\ BaselineStart
    /\ SignalStart
    /\ now = 0
    /\ queue = {}
    /\ shPc = "idle"
    /\ shBatch = {}
    /\ shAttempts = 0
    /\ shFailures = 0
    /\ shBreaker = "closed"
    /\ shResp = "none"
    /\ shRestarted = FALSE
    /\ everEnqueued = {}
    /\ acked = {}
    /\ poisoned = {}
    /\ shScript \in {<<>>, S4Script}
    /\ shHealthy = FALSE
    /\ shFirst = {}
    /\ shRetry = DefaultRetry
    /\ shWaits = <<>>
    /\ WatcherOff
    /\ ConfigOff
    /\ QueueOff
    /\ ConcOff
    /\ GenIdOff
    /\ LoopOff
    /\ LoaderOff
    /\ EngineOff
    /\ DecoderOff

\* the shipper started with any retry settings that pass validation
InitShipperRetry ==
    /\ LineageStart
    /\ WindowStart
    /\ BaselineStart
    /\ SignalStart
    /\ WatcherOff
    /\ ConfigOff
    /\ QueueOff
    /\ ConcOff
    /\ GenIdOff
    /\ LoopOff
    /\ LoaderOff
    /\ EngineOff
    /\ DecoderOff
    /\ now = 0
    /\ queue = {}
    /\ shPc = "idle"
    /\ shBatch = {}
    /\ shAttempts = 0
    /\ shFailures = 0
    /\ shBreaker = "closed"
    /\ shResp = "none"
    /\ shRestarted = FALSE
    /\ everEnqueued = {}
    /\ acked = {}
    /\ poisoned = {}
    /\ shScript = <<>>
    /\ shHealthy = FALSE
    /\ shFirst = {}
    /\ shRetry \in RetryConfigs
    /\ shWaits = <<>>

NextShipper ==
    \/ \E id \in ShipIds : Enqueue(id)
    \/ FlushStart
    \/ RespondAccepted
    \/ \E resp \in Responses : RespondPoison(resp)
    \/ \E resp \in Responses : RespondRetryable(resp)
    \/ BreakerCoolDown
    \/ BackendRecovers
    \/ ShipperRestart

SpecShipper == InitShipper /\ [][NextShipper]_vars

SpecShipperRetry == InitShipperRetry /\ [][NextShipper]_vars

\* the flush is periodic, a POST is answered (or times out), and the
\* cool-down timer of the breaker fires
SpecShipperFair ==
    /\ SpecShipper
    /\ WF_vars(FlushStart)
    /\ WF_vars(RespondAccepted)
    /\ WF_vars(\E resp \in Responses : RespondPoison(resp) \/ RespondRetryable(resp))
    /\ WF_vars(BreakerCoolDown)


\* The watcher is created at instant StabilityWait over a directory that
\* holds, per path, no file, a file written at instant 0 (stable) or a file
\* written one instant before (recent).
InitWatcher ==
    /\ LineageStart
    /\ WindowStart
    /\ BaselineStart
    /\ SignalStart
    /\ ShipperStart
    /\ ConfigOff
    /\ QueueOff
    /\ ConcOff
    /\ GenIdOff
    /\ LoopOff
    /\ LoaderOff
    /\ EngineOff
    /\ DecoderOff
    /\ now = StabilityWait
    /\ files \in [Paths -> {NoFile, FileAt(0), FileAt(StabilityWait - 1)}]
    /\ nq = {}
    /\ novf = FALSE
    /\ pending = NoPending
    /\ chan = <<>>
    /\ journal = {}
    /\ wpc = "start"
    /\ wticked = FALSE
    /\ wcap \in PendingCaps
    /\ wbuf \in ChannelBuffers
    /\ fwrites = [path \in Paths |-> IF Present(files, path) THEN 1 ELSE 0]
    /\ emits = [path \in Paths |-> 0]
    /\ wblocked = {}
    /\ wevicted = FALSE
    /\ wevset = {}
    /\ wdropped = {}
    /\ wstartup = {path \in Paths : Present(files, path) /\ Stable(files[path].mtime, now)}
    /\ wfile = NoPath
    /\ wrestarted = FALSE
    /\ wprocessed = [path \in Paths |-> 0]
    /\ wcancelled = FALSE
    /\ wclosed = FALSE
    /\ wret = NotReturned

NextWatcher ==
    \/ WatcherStartup
    \/ \E path \in Paths, notified \in BOOLEAN : FileWrite(path, notified)
    \/ \E path \in Paths : HandleEvent(path)
    \/ HandleOverflow
    \/ Tick
    \/ WatcherAdvance
    \/ Consume
    \/ ArchiveFile

SpecWatcher == InitWatcher /\ [][NextWatcher]_vars

\* the watcher's select loop and the worker keep running
SpecWatcherFair ==
    /\ SpecWatcher
    /\ WF_vars(WatcherStartup)
    /\ WF_vars(\E path \in Paths : HandleEvent(path))
    /\ WF_vars(HandleOverflow)
    /\ WF_vars(Tick)
    /\ WF_vars(WatcherAdvance)
    /\ WF_vars(Consume)
    /\ WF_vars(ArchiveFile)

\* the watcher and, once, a restart of the agent
NextWatcherRestart ==
    \/ NextWatcher
    \/ WatcherRestart

SpecWatcherRestart == InitWatcher /\ [][NextWatcherRestart]_vars

\* the watcher and the cancellation of its context; the select loop of Start
\* keeps running until it returns
NextWatcherCancel ==
    \/ NextWatcher
    \/ Cancel
    \/ WatcherStop

SpecWatcherCancel ==
    /\ InitWatcher
    /\ [][NextWatcherCancel]_vars
    /\ WF_vars(WatcherStop)


InitConfig ==
    /\ QueueOff
    /\ ConcOff
    /\ GenIdOff
    /\ LoopOff
    /\ LineageStart
    /\ WindowStart
    /\ BaselineStart
    /\ SignalStart
    /\ ShipperStart
    /\ WatcherOff
    /\ LoaderOff
    /\ EngineOff
    /\ DecoderOff
    /\ now = 0
    /\ cinput \in ConfigInputs
    /\ cresult = NotValidated

NextConfig == ValidateAction

SpecConfig == InitConfig /\ [][NextConfig]_vars


InitQueue ==
    /\ ConfigOff
    /\ LineageStart
    /\ WindowStart
    /\ BaselineStart
    /\ SignalStart
    /\ ShipperStart
    /\ WatcherOff
    /\ LoaderOff
    /\ EngineOff
    /\ LoopOff
    /\ ConcOff
    /\ GenIdOff
    /\ DecoderOff
    /\ now = 0
    /\ sqrecs \in SUBSET {signal \in QueueSignals : signal.Content = "x"}
    /\ sqop = NoOp

NextQueue ==
    \/ \E signal \in QueueSignals : EnqueueSignal(signal)
    \/ \E id \in QueueIds : DeleteSignal(id)

SpecQueue == InitQueue /\ [][NextQueue]_vars


InitLoader ==
    /\ LineageStart
    /\ WindowStart
    /\ BaselineStart
    /\ SignalStart
    /\ ShipperStart
    /\ WatcherOff
    /\ ConfigOff
    /\ QueueOff
    /\ ConcOff
    /\ GenIdOff
    /\ LoopOff
    /\ EngineOff
    /\ DecoderOff
    /\ now = 0
    /\ linput \in LoaderInputs
    /\ lresult = NotLoaded

NextLoader == LoadAction

SpecLoader == InitLoader /\ [][NextLoader]_vars


InitEngine ==
    /\ LineageStart
    /\ WindowStart
    /\ BaselineStart
    /\ SignalStart
    /\ ShipperStart
    /\ WatcherOff
    /\ ConfigOff
    /\ QueueOff
    /\ ConcOff
    /\ GenIdOff
    /\ LoopOff
    /\ LoaderOff
    /\ DecoderOff
    /\ now = 0
    /\ EngineOff

NextEngine ==
    \/ \E rc \in StartupConfigs \cup EngineConfigs : LoadRulesCall(rc)
    \/ LoadRulesStep
    \/ EvaluateLen
    \/ EvaluateNil
    \/ EvaluateRange

SpecEngine == InitEngine /\ [][NextEngine]_vars


InitLoop ==
    /\ LineageStart
    /\ WindowStart
    /\ BaselineStart
    /\ SignalStart
    /\ ShipperStart
    /\ WatcherOff
    /\ ConfigOff
    /\ QueueOff
    /\ ConcOff
    /\ GenIdOff
    /\ LoaderOff
    /\ EngineOff
    /\ DecoderOff
    /\ now = 0
    /\ LoopOff

NextLoop ==
    \/ \E kind \in EvalKinds : \E out \in LoopOutcomes(kind) : \E tomap \in {"ok", "fails"} :
           EvalCall(kind, out, tomap)
    \/ EvalIter
    \/ EvalReturn

SpecLoop == InitLoop /\ [][NextLoop]_vars

InitDecoder ==
    /\ LineageStart
    /\ WindowStart
    /\ BaselineStart
    /\ SignalStart
    /\ ShipperStart
    /\ WatcherOff
    /\ ConfigOff
    /\ QueueOff
    /\ ConcOff
    /\ GenIdOff
    /\ LoopOff
    /\ LoaderOff
    /\ EngineOff
    /\ now = 0
    /\ dinput \in DecoderInputs
    /\ dresult = NotDecoded

NextDecoder == DecodeAction

SpecDecoder == InitDecoder /\ [][NextDecoder]_vars


(***************************************************************************)
(* C9: Store.Lineage(key, d) terminates for every cache content, cyclic    *)
(* parent links included; the chain holds at most d nodes (at most 8 when  *)
(* d <= 0) and never holds the same node twice.                            *)
(***************************************************************************)
C9_LineageBounded ==
    /\ [](Len(lchain) <= (IF larg <= 0 THEN 8 ELSE larg))
    /\ [](NoDuplicates(lchain))
    /\ ((lpc = "loop") ~> (lpc = "done"))

\* a call with the default depth has walked a parent ring up to the depth cap
C9_Witness ==
    /\ lpc = "done"
    /\ nodes = RingCache
    /\ larg <= 0
    /\ Len(lchain) = 8

\* C3: for the count rule (window W, threshold T), when matching events
\* e1..ek of one group carry timestamps, are processed in timestamp order and
\* ek.time - e1.time <= W, the Process call on ek emits a WindowMatch iff
\* k >= T.
C3_ThresholdByEventTime ==
    (whist.ok /\ whist.k > 0) => (whist.fired <=> whist.k >= WatchedRule.Threshold)

\* matches returned so far for events whose tracked values yield pattern p
EmittedFor(p) ==
    LET ts == {t \in BaselineTuples :
                  JoinStr([i \in 1..Len(t) |->
                              TrimPrefix(TrackRule.Track[i], EventPrefix) \o <<"=">> \o t[i]],
                          <<"|">>) = p}
        RECURSIVE Sum(_)
        Sum(S) == IF S = {} THEN 0
                  ELSE LET t == CHOOSE x \in S : TRUE IN bemitted[t] + Sum(S \ {t})
    IN Sum(ts)

CalledFor(p) ==
    \E m \in BaselineFieldMaps :
        /\ extractPattern([fields |-> m], TrackRule.Track) = p
        /\ bcalled[TrackedValues([fields |-> m], TrackRule.Track)]

\* C2: with one worker and one baseline rule, once Process calls on events
\* that pass the filter have returned, exactly one BaselineMatch has been
\* returned for each combination of tracked field values that occurred:
\* repeating the values yields nothing more, an event that differs in a
\* tracked field yields exactly one additional match.
C2_OneMatchPerTrackedValues ==
    \A t \in BaselineTuples : bcalled[t] => bemitted[t] = 1

C4_SameSignalIDs ==
    (\A r \in Runs : spos[r] = Len(sstream)) => SignalIDs(1) = SignalIDs(2)

\* C1: every signal ever enqueued is acknowledged by a 2xx, dropped after a
\* 4xx other than 401/403, or still in the queue; and a step takes a signal
\* out of the queue only when it handles a 2xx or such a 4xx for the batch
\* that holds it (restart, failed attempts, exhausted retries and breaker
\* steps remove nothing).
C1_AtLeastOnce ==
    /\ [](everEnqueued \subseteq (acked \cup poisoned \cup queue))
    /\ [][(queue \ queue' # {}) =>
            /\ shPc = "sending"
            /\ shResp' \in {"2xx", "4xx"}
            /\ (queue \ queue') \subseteq shBatch
            /\ (queue \ queue') \subseteq (IF shResp' = "2xx" THEN acked' ELSE poisoned')]_vars

\* after a restart, with the breaker open after exhausted retries: one signal
\* acknowledged, one poisoned, one still queued
C1_Witness ==
    /\ shRestarted
    /\ shBreaker = "open"
    /\ acked # {} /\ poisoned # {}
    /\ queue \ (acked \cup poisoned) # {}

\* C5: a step that sends a path on the channel does so only when the file is
\* there and its last modification (creation after start, rewrite while
\* pending, or creation before start) lies at least stability_wait back.
C5_StableBeforeEmit ==
    [][\A i \in (Len(chan) + 1)..Len(chan') :
          /\ Present(files, chan'[i])
          /\ now - files[chan'[i]].mtime >= StabilityWait]_vars

\* a file rewritten after the watcher started has been emitted
C5_Witness ==
    \E path \in Paths :
        /\ fwrites[path] = MaxWrites
        /\ emits[path] = 1
        /\ Present(files, path)
        /\ files[path].mtime > StabilityWait

Answered ==
    /\ shPc = "sending"
    /\ \/ shAttempts' = shAttempts + 1
       \/ shPc' = "idle" /\ (queue' # queue \/ shFailures' > 0)

\* C11: the answer decides the outcome of the POST: 2xx deletes the batch
\* from the queue; a 4xx other than 401/403 deletes it as poison; a network
\* error, 5xx, 429, 401 or 403 leaves every signal of the batch queued and
\* the batch is posted again, in this cycle or (attempts exhausted) by a
\* later flush that reads it from the queue.
C11_OutcomeByResponse ==
    /\ [](shPc = "sending" => shBatch # {} /\ shBatch \subseteq queue)
    /\ [][Answered =>
            /\ shResp' \in Responses
            /\ shResp' = "2xx" =>
                 /\ queue' = queue \ shBatch
                 /\ shBatch \subseteq acked'
            /\ shResp' = "4xx" =>
                 /\ queue' = queue \ shBatch
                 /\ shBatch \subseteq poisoned'
            /\ shResp' \in {"neterr", "5xx", "429", "401", "403"} =>
                 /\ queue' = queue
                 /\ acked' = acked /\ poisoned' = poisoned
                 /\ \/ shPc' = "sending" /\ shBatch' = shBatch /\ shAttempts' = shAttempts + 1
                    \/ shPc' = "idle" /\ shAttempts + 1 = MaxAttempts]_vars

\* a 429 was answered to the first attempt of a batch, which is still queued
\* and being retried, after other batches were accepted and poisoned
C11_Witness ==
    /\ shResp = "429" /\ shPc = "sending" /\ shAttempts = 1
    /\ shBatch \subseteq queue
    /\ acked # {} /\ poisoned # {}

\* C12: (S4) when the backend answers 5xx five times and then 2xx, nothing is
\* delivered before the 6th POST, the 6th POST delivers, and when only the
\* first batch was ever enqueued every POST carried that batch and the queue
\* is empty afterwards; and once the backend keeps answering 2xx every queued
\* signal leaves the queue, acknowledged.
C12_DeliveredAfterRecovery ==
    /\ [](Len(shScript) >= 1 => acked = {})
    /\ [][(Answered /\ shScript # <<>>) =>
            /\ everEnqueued = shFirst => shBatch = shFirst
            /\ Len(shScript) = 1 =>
                 /\ shResp' = "2xx"
                 /\ acked' = shBatch
                 /\ everEnqueued = shFirst => queue' = {}]_vars
    /\ [][(shHealthy /\ shScript = <<>>) => (queue \ queue') \subseteq acked']_vars
    /\ \A id \in ShipIds :
          (shHealthy /\ shScript = <<>> /\ id \in queue) ~> (id \notin queue)

\* the scripted scenario ran to its end without a restart: the first batch
\* was delivered by the 6th POST and the queue is empty
C12_Witness ==
    /\ shFirst # {} /\ shScript = <<>>
    /\ ~shRestarted
    /\ acked = shFirst /\ everEnqueued = shFirst
    /\ queue = {}
    /\ shResp = "2xx"

\* C13: the breaker is open after BreakerThreshold consecutive failed flush
\* cycles; while it is open no batch is sent; it leaves open only for
\* half-open when the cool-down ends; it closes, and the failure count
\* resets, only when the half-open probe is answered 2xx; a failed probe
\* opens it again. (A restart of the agent starts with a new breaker.)
C13_Breaker ==
    /\ [](shFailures >= BreakerThreshold => shBreaker # "closed")
    /\ [](shBreaker = "open" => shPc = "idle")
    /\ [][shRestarted' = shRestarted =>
            /\ (shBreaker = "closed" /\ shBreaker' # "closed") =>
                  /\ shBreaker' = "open"
                  /\ shFailures = BreakerThreshold - 1
                  /\ shFailures' = BreakerThreshold
            /\ shBreaker = "open" => shPc' = "idle" /\ shBreaker' \in {"open", "halfopen"}
            /\ (shBreaker # "closed" /\ (shBreaker' = "closed" \/ shFailures' < shFailures)) =>
                  /\ shBreaker = "halfopen"
                  /\ Answered /\ shResp' = "2xx"
                  /\ shBreaker' = "closed" /\ shFailures' = 0
            /\ (shBreaker = "halfopen" /\ Answered /\ shPc' = "idle" /\ shResp' \in Retryable) =>
                  shBreaker' = "open"]_vars

\* the scripted failures opened the breaker and, with no restart, the probe
\* after the cool-down was accepted: the breaker is closed again
C13_Witness ==
    /\ shFirst # {} /\ shScript = <<>>
    /\ ~shRestarted
    /\ acked = shFirst /\ poisoned = {}
    /\ shBreaker = "closed" /\ shFailures = 0
    /\ MaxAttempts * BreakerThreshold < S4Failures + 1

\* where the items of the loaded files are: (file, section, index)
ItemPositions(parsed) ==
    {p \in (1..Len(parsed)) \X {"Rules", "Correlations", "Baselines"} \X (1..2) :
        p[3] <= Len(parsed[p[1]][p[2]])}

\* two items, in one file or in two, in one section or in two, share an id
SharesId(parsed) ==
    \E p, q \in ItemPositions(parsed) :
        /\ p # q
        /\ parsed[p[1]][p[2]][p[3]].ID = parsed[q[1]][q[2]][q[3]].ID

\* C16: loading fails whenever two items among rules, correlations and
\* baselines share an id, in one file or in different files of a directory;
\* a configuration that was loaded has pairwise distinct ids across the
\* three sections.
C16_DuplicateIdsFatal ==
    lresult # NotLoaded =>
        /\ SharesId(linput.files) => (lresult.err # "" /\ lresult.config = NoConfig)
        /\ lresult.err = "" => ~SharesId(<<lresult.config>>)

\* a directory whose first file holds rule "a" and whose second file holds
\* baseline "a" (no duplicate inside either file) was refused, and a
\* directory of two files without a shared id was loaded and merged
C16_Witness ==
    /\ /\ lresult # NotLoaded /\ lresult.err # ""
       /\ linput.isDir /\ Len(linput.files) = 2
       /\ ~SharesId(<<linput.files[1]>>) /\ ~SharesId(<<linput.files[2]>>)
       /\ Len(linput.files[1].Rules) = 1 /\ linput.files[1].Rules[1].ID = "a"
       /\ linput.files[1].Rules[1].Severity = "low"
       /\ linput.files[1].Correlations = <<>> /\ linput.files[1].Baselines = <<>>
       /\ linput.files[2].Rules = <<>> /\ linput.files[2].Correlations = <<>>
       /\ Len(linput.files[2].Baselines) = 1 /\ linput.files[2].Baselines[1].ID = "a"

\* the enabled items of a section, in configuration order
EnabledOf(items) == SelectSeq(items, LAMBDA item : item.Enabled)

\* every enabled item of the configuration compiles
AllCompile(rc) ==
    \A section \in {"Rules", "Correlations", "Baselines"} :
        \A i \in 1..Len(rc[section]) :
            rc[section][i].Enabled => compileExpression(rc[section][i].Expr) = ""

\* C14: after a LoadRules that failed, the simple, correlation and baseline
\* sets of the engine are those of before the call.
C14_FailedLoadKeepsPrevious ==
    (lrPc = "idle" /\ lrErr # "") => EngineSets = lrPrev

\* C15: the compiled rules a worker's Evaluate runs over are the complete
\* set of before the latest LoadRules call or the complete set of its
\* configuration, never an empty or partly installed one.
C15_EvaluateSeesOldOrNew ==
    [][LET seen == IF evPc' = "nil" THEN <<>> ELSE evSeen'
       IN ((evPc = "idle" /\ evPc' = "nil") \/ (evPc = "range" /\ evPc' = "idle")) =>
             \/ seen = lrPrev.Rules
             \/ AllCompile(lrCfg) /\ seen = EnabledOf(lrCfg.Rules)]_vars

\* C17: after a LoadRules that succeeded the three compiled sets are exactly
\* the enabled items of the configuration, in configuration order; and
\* Evaluate never runs over a disabled rule.
C17_ExactlyEnabledInOrder ==
    /\ (lrPc = "idle" /\ lrErr = "" /\ lrCalls > 0) =>
          /\ engRules = EnabledOf(lrCfg.Rules)
          /\ engCorrelations = EnabledOf(lrCfg.Correlations)
          /\ engBaselines = EnabledOf(lrCfg.Baselines)
    /\ \A i \in 1..Len(evSeen) : evSeen[i].Enabled
    /\ \A i \in 1..Len(engRules) : engRules[i].Enabled

\* a reload succeeded whose configuration holds a disabled rule that would
\* not compile before an enabled one, a disabled correlation and an enabled
\* baseline, and a worker evaluated the new set
C17_Witness ==
    /\ lrPc = "idle" /\ lrErr = "" /\ lrCalls = 2
    /\ Len(lrCfg.Rules) = 2
    /\ ~lrCfg.Rules[1].Enabled /\ lrCfg.Rules[1].Expr = "1"
    /\ lrCfg.Rules[2].Enabled /\ lrCfg.Rules[2].ID = "a"
    /\ Len(lrCfg.Correlations) = 1 /\ ~lrCfg.Correlations[1].Enabled
    /\ Len(engBaselines) = 1
    /\ Len(engRules) = 1 /\ evSeen = engRules
    /\ lrPrev.Rules # engRules

\* the file is compressed and its decompressed size divided by its size is
\* above max_decompression_rate
IsBomb(input) ==
    /\ LayersOf(input) >= 1
    /\ PayloadSize(input) > DecMaxDecompressionRate * input.sizes[1]

\* no size or rate limit is exceeded while the first n layers are removed
WithinLimits(input, n) ==
    /\ input.sizes[1] >= 1 /\ input.sizes[1] <= DecMaxFileSize
    /\ \A i \in 1..n :
          /\ input.sizes[i + 1] <= DecMaxDecompressedSize
          /\ input.sizes[i + 1] <= DecMaxDecompressionRate * input.sizes[1]

\* C18 as stated: every compressed file whose decompressed size divided by
\* its size exceeds max_decompression_rate fails with BombSuspected and
\* yields no events.
C18_BombSuspected ==
    (dresult # NotDecoded /\ IsBomb(dinput)) =>
        (dresult.err = "BombSuspected" /\ dresult.events = 0)

\* C18, amended: such a file always fails and yields no events; the error is
\* BombSuspected when the file is within max_file_size, has at most two
\* layers, its decompressed data is within max_decompressed_size and the
\* layers before the last are within the limits.
C18_BombFails ==
    (dresult # NotDecoded /\ IsBomb(dinput)) =>
        /\ dresult.err # "" /\ dresult.events = 0
        /\ (/\ LayersOf(dinput) <= DecMaxLayers
            /\ WithinLimits(dinput, LayersOf(dinput) - 1)
            /\ PayloadSize(dinput) <= DecMaxDecompressedSize)
              => dresult.err = "BombSuspected"

\* a file of two layers whose first layer is within the limits and whose
\* payload expands beyond the rate was refused with BombSuspected
C18_Witness ==
    /\ dresult = Failure("BombSuspected")
    /\ LayersOf(dinput) = 2
    /\ WithinLimits(dinput, 1)
    /\ IsBomb(dinput)
    /\ PayloadSize(dinput) <= DecMaxDecompressedSize

\* C19 as stated: a file wrapped in one or two layers is decoded, a file
\* wrapped in three or more layers fails with DepthExceeded and yields no
\* events.
C19_TwoLayers ==
    dresult # NotDecoded =>
        /\ (LayersOf(dinput) \in {1, 2} /\ dinput.payload # "garbage") =>
              (dresult.err = "" /\ dresult.events >= 1)
        /\ LayersOf(dinput) >= 3 =>
              (dresult.err = "DepthExceeded" /\ dresult.events = 0)

\* C19, amended: a file wrapped in one or two layers that stay within the
\* limits is decoded; a file wrapped in three or more layers yields no
\* events and fails, with DepthExceeded when its first two layers stay
\* within the limits.
C19_TwoLayersWithinLimits ==
    dresult # NotDecoded =>
        /\ (/\ LayersOf(dinput) \in {1, 2}
            /\ dinput.payload # "garbage"
            /\ WithinLimits(dinput, LayersOf(dinput))) =>
              (dresult.err = "" /\ dresult.events >= 1)
        /\ LayersOf(dinput) >= 3 =>
              /\ dresult.err # "" /\ dresult.events = 0
              /\ WithinLimits(dinput, DecMaxLayers) => dresult.err = "DepthExceeded"

\* a file of three layers whose first two are within the limits was refused
\* with DepthExceeded
C19_Witness ==
    /\ dresult = Failure("DepthExceeded")
    /\ LayersOf(dinput) = 3
    /\ WithinLimits(dinput, DecMaxLayers)
    /\ dinput.payload = "single"

C21_CancelCloses ==
    /\ wcancelled ~> (wret = "context.Canceled" /\ wclosed)
    /\ [](wclosed <=> wret = "context.Canceled")
    /\ [](wclosed => wcancelled)
    /\ [][wclosed => (wclosed' /\ Len(chan') <= Len(chan))]_vars

\* the context was cancelled while a stable file was pending and another
\* path was in the channel; Start returned, the channel is closed and the
\* worker has received what was buffered
C21_Witness ==
    /\ wclosed /\ wret = "context.Canceled"
    /\ wpc = "stopped"
    /\ chan = <<>>
    /\ \E path \in Paths :
          /\ pending[path] # NoTime
          /\ Present(files, path)
          /\ Stable(pending[path], now)
    /\ journal # {}

\* C22: Lineage returns an empty chain for a key that is not cached, and the
\* signal then has no process_tree; for a cached target whose parent key is
\* not zero and not cached it returns the target alone, and the process_tree
\* of the signal holds just the target.
C22_UnknownKeyAndParent ==
    lpc = "done" =>
        /\ lkey \notin DOMAIN nodes =>
              (lchain = <<>> /\ ProcessTree(lchain) = NoTree)
        /\ (/\ lkey \in DOMAIN nodes
            /\ ~IsZero(nodes[lkey].Parent)
            /\ nodes[lkey].Parent \notin DOMAIN nodes) =>
              (lchain = <<lkey>> /\ ProcessTree(lchain) = <<lkey>>)

\* a call for a cached process whose parent is not cached, in a cache that
\* holds other processes, has returned
C22_Witness ==
    /\ lpc = "done"
    /\ lkey \in DOMAIN nodes
    /\ nodes[lkey].Parent = PKey(NPids + 1)
    /\ Cardinality(DOMAIN nodes) > 1
    /\ lchain = <<lkey>>

C24_OneBootSession ==
    /\ \A k \in DOMAIN nodes :
          IsZero(nodes[k].Parent) \/ nodes[k].Parent.BootUUID = k.BootUUID
    /\ \A i, j \in 1..Len(lchain) : lchain[i].BootUUID = lchain[j].BootUUID

\* the store holds the same pid under two boot session uuids, and a
\* call has returned a target and its parent
C24_Witness ==
    /\ lpc = "done"
    /\ Len(lchain) = 2
    /\ lchain[1].BootUUID = "a"
    /\ \E k \in DOMAIN nodes : k.BootUUID = "" /\ k.Pid = lchain[2].Pid

\* C25: validation of the shipper block accepts an endpoint only if its
\* scheme is https, or its scheme is http and its host is localhost,
\* 127.0.0.1 or ::1; every other endpoint is rejected with an error.
C25_HttpsOrLoopback ==
    (cresult # NotValidated /\ ~cinput.skipShipper) =>
        LET u == UrlParse(cinput.cfg.Endpoint)
            allowed == /\ cinput.cfg.Endpoint.kind = "url"
                       /\ \/ u.Scheme = "https"
                          \/ /\ u.Scheme = "http"
                             /\ Hostname(u.Host) \in {"localhost", "127.0.0.1", "::1"}
        IN cresult = "" => allowed

\* C26: enqueuing a signal whose id is already in shipped_queue leaves the
\* queue unchanged, enqueuing one whose id is not queued adds exactly that
\* record, and the queue never holds two records of one id.
C26_InsertOrIgnore ==
    /\ [](\A r, q \in sqrecs : r.ID = q.ID => r = q)
    /\ [][sqop'.op = "enqueue" =>
            IF \E r \in sqrecs : r.ID = sqop'.ID
              THEN sqrecs' = sqrecs
              ELSE sqrecs' = sqrecs \cup {[ID |-> sqop'.ID, Content |-> sqop'.Content]}]_vars

\* a signal was enqueued whose id was queued with another content: the
\* queue holds the first record of that id, beside another signal
C26_Witness ==
    /\ sqop = [op |-> "enqueue", ID |-> "s1", Content |-> "y"]
    /\ sqrecs = {[ID |-> "s1", Content |-> "x"], [ID |-> "s2", Content |-> "z"]}

CorrRuleOf(id) == CHOOSE r \in {CountRule, DistinctRule, FailingRule} : r.ID = id

\* the rule fired for the group in the matches returned
FiredFor(matches, rule, key) ==
    \E m \in Range(matches) : m.RuleID = rule.ID /\ m.GroupKey = key

\* the entries of a list whose event_time lies within window of t
TimedWithin(list, t, window) ==
    SelectSeq(list, LAMBDA x : x.time # NoTime /\ t - x.time <= window)

\* list is the last entries of full, at most max of them
IsNewestOf(list, full, max) ==
    /\ Len(list) = (IF Len(full) > max THEN max ELSE Len(full))
    /\ list = SubSeq(full, Len(full) - Len(list) + 1, Len(full))

\* the step is a Process call on the event
IsProcessOf(event) ==
    /\ now' = now
    /\ wlast' = KindOf(event, corrRules)
    /\ windows' = StoreAfter(windows, event, corrRules, Len(corrRules), now)
    /\ wresult' = MatchesAfter(windows, event, corrRules, Len(corrRules), now)

\* C28: after Process has handled a matching event for a rule and group
\* without firing, the stored list of the group holds only events whose
\* event_time is within the rule's window of now, has at most max_events
\* entries, and is exactly the newest entries, in insertion order, of the
\* old list followed by the new event with the out-of-window ones left out.
C28_StoredListShape ==
    [][\A event \in WindowEventsFor(corrRules, now) :
          (wlast' \in {"timed", "untimed"} /\ IsProcessOf(event)) =>
              \A i \in 1..Len(corrRules) :
                  LET rule == corrRules[i]
                      key == extractGroupKey(event, rule.GroupBy)
                      list == windows'[<<rule.ID, key>>]
                      full == Append(windows[<<rule.ID, key>>], StoredEvent(event))
                  IN  (RuleMatched(event, rule) /\ ~FiredFor(wresult', rule, key)) =>
                          /\ \A j \in 1..Len(list) :
                                 /\ list[j].time # NoTime
                                 /\ now - list[j].time <= rule.Window
                          /\ Len(list) <= WmMaxEvents
                          /\ IsNewestOf(list, TimedWithin(full, now, rule.Window),
                                        WmMaxEvents)]_vars

\* Process returned without firing for a matching event of the
\* distinct-count rule and left a full list that ends with an event of now
C28_Witness ==
    /\ wlast = "timed"
    /\ corrRules = <<DistinctRule>>
    /\ wresult = <<>>
    /\ Len(windows[<<DistinctRule.ID, GlobalKey>>]) = WmMaxEvents
    /\ windows[<<DistinctRule.ID, GlobalKey>>][WmMaxEvents].time = now
    /\ wlastGC = now

\* a stored event of the bucket is older than the window of its rule at t
StaleIn(w, b, t) ==
    \E i \in 1..Len(w[b]) :
        w[b][i].time # NoTime /\ t - w[b][i].time > CorrRuleOf(b[1]).Window

\* C29: when the periodic garbage collection runs (Process records a new
\* lastGC), it has visited every group and removed the events older than
\* the rule's window: no group holds a stale event afterwards.
C29_GcDropsStale ==
    [][wlastGC' # wlastGC => \A b \in WindowBuckets : ~StaleIn(windows', b, now')]_vars

NewestOf(full, max) ==
    IF Len(full) > max THEN SubSeq(full, Len(full) - max + 1, Len(full)) ELSE full

\* the surviving list: the old list and the new event, the entries out of
\* the window left out, cut to the newest max_events
Surviving(old, event, rule, t) ==
    NewestOf(TimedWithin(Append(old, StoredEvent(event)), t, rule.Window), WmMaxEvents)

\* the non-empty values the events of a list have for a field
DistinctValues(list, field) ==
    {list[j].fields[field] : j \in {k \in 1..Len(list) : field \in DOMAIN list[k].fields}}
        \ {<<>>}

\* C31: the count compared with the threshold, and reported in the match,
\* is the number of distinct values of the count_distinct field among the
\* surviving events when count_distinct is set, and the number of surviving
\* events when it is not.
C31_CountDistinctOrEvents ==
    [][\A event \in WindowEventsFor(corrRules, now) :
          (wlast' \in {"timed", "untimed"} /\ IsProcessOf(event)) =>
              \A i \in 1..Len(corrRules) :
                  LET rule == corrRules[i]
                      key == extractGroupKey(event, rule.GroupBy)
                      list == Surviving(windows[<<rule.ID, key>>], event, rule, now)
                      n == IF rule.CountDistinct # <<>>
                             THEN Cardinality(DistinctValues(list,
                                      TrimPrefix(rule.CountDistinct, EventPrefix)))
                             ELSE Len(list)
                  IN  RuleMatched(event, rule) =>
                          /\ FiredFor(wresult', rule, key) <=> n >= rule.Threshold
                          /\ \A mt \in Range(wresult') :
                                 (mt.RuleID = rule.ID /\ mt.GroupKey = key) => mt.Count = n]_vars

\* the distinct-count rule did not fire on the second of two surviving
\* events that carry one value of the counted field
C31_Witness ==
    /\ wlast = "timed"
    /\ corrRules = <<DistinctRule>>
    /\ wresult = <<>>
    /\ Len(windows[<<DistinctRule.ID, GlobalKey>>]) = 2
    /\ Cardinality(DistinctValues(windows[<<DistinctRule.ID, GlobalKey>>], FieldG)) = 1
    /\ DistinctRule.Threshold = 2

\* a state DB operation or the map conversion failed in the call
StorageFailed ==
    \/ lpKind = "correlation" /\ lpToMap = "fails"
    \/ /\ lpKind \in {"correlation", "baseline"}
       /\ \E id \in Range(LoopRules) : lpOut[id].eval = "true" /\ lpOut[id].db = "err"
    \/ /\ lpKind = "baseline" /\ lpToMap = "fails"
       /\ \E id \in Range(LoopRules) : lpOut[id].eval = "true"

\* C32: an evaluation error or a non-boolean result of a rule's expression
\* is a no-match of that rule only: unless the storage fails, the call
\* returns no error, has evaluated every rule, and returns the match of
\* every rule whose expression accepted the event.
C32_EvalFailureSkipsOneRule ==
    (lpPc = "done" /\ ~StorageFailed) =>
        /\ lpRet.err = "nil"
        /\ lpEvaluated = Range(LoopRules)
        /\ lpRet.matches =
              SelectSeq(LoopRules,
                        LAMBDA id : lpOut[id].eval = "true"
                                      /\ lpOut[id].db \in {"ok", "fire", "first"})

\* a call returned whose first rule failed to evaluate and whose second
\* rule matched
C32_Witness ==
    /\ lpPc = "done"
    /\ lpOut["r1"].eval \in {"error", "nonbool"}
    /\ lpOut["r2"].eval = "true"
    /\ lpRet = [matches |-> <<"r2">>, err |-> "nil"]
    /\ lpEvaluated = {"r1", "r2"}

\* the identifier as the cascade gives it: the target hash, else the target
\* path, else the group key or the pattern
CascadeIdentifier(match) ==
    IF match.sha256 # <<>> THEN match.sha256
    ELSE IF match.path # <<>> THEN match.path
    ELSE IF match.kind = "window" THEN match.GroupKey
    ELSE IF match.kind = "baseline" THEN match.Pattern
    ELSE <<>>

\* C33: for every match type the identifier hashed into the signal id is
\* the target hash if the event has one, else the target path if it has
\* one, else the group key (correlation) or the pattern (baseline).
C33_IdentifierCascade ==
    [][\A r \in Runs :
          (spos'[r] = spos[r] + 1) =>
              \E sig \in ssignals'[r] :
                  /\ sig.RuleID = sstream[spos'[r]].RuleID
                  /\ sig.ID = generateSignalID(sig.RuleID, sig.TS, HostID,
                                               CascadeIdentifier(sstream[spos'[r]]))]_vars

\* C34: after any sequence of UpsertFromExecution calls, with any keys, the
\* zero key and cached keys included, the lineage cache holds at most
\* max_entries nodes.
C34_CacheBounded == Cardinality(DOMAIN nodes) <= StoreMaxEntries

\* the keys of the nodes whose created_at is older than ttl at t
ExpiredKeys(ns, t) == {k \in DOMAIN ns : ns[k].CreatedAt < t - StoreTTL}

\* C35: an UpsertFromExecution removes all nodes whose created_at is older
\* than ttl; then, only if the cache is full, exactly one further node, one
\* of smallest created_at; it removes no other node, and the upserted key
\* is present afterwards.
C35_EvictionFrame ==
    [][(now' = now /\ nodes' # nodes) =>
          \E key \in DOMAIN nodes' :
              LET live == DOMAIN nodes \ ExpiredKeys(nodes, now)
              IN  /\ nodes'[key].CreatedAt = now
                  /\ \A k \in DOMAIN nodes' \ {key} : k \in live /\ nodes'[k] = nodes[k]
                  /\ IF Cardinality(live) >= StoreMaxEntries
                       THEN \E v \in live :
                               /\ \A o \in live : nodes[v].CreatedAt <= nodes[o].CreatedAt
                               /\ DOMAIN nodes' = (live \ {v}) \cup {key}
                       ELSE DOMAIN nodes' = live \cup {key}]_vars

\* the time recorded for a path when the step observed or kept it: the
\* file's mtime for the path of the handled event and for a path the
\* enumeration added, the recorded time otherwise
ObservedAt(path) ==
    IF pending[path] # NoTime /\ path \notin (nq \ nq') THEN pending[path]
    ELSE files[path].mtime

C37_BoundedRetries ==
    /\ [](shPc = "sending" => shAttempts + 1 <= MaxAttempts)
    /\ [](\A i \in 1..Len(shWaits) :
             shRetry.Initial <= shWaits[i] /\ shWaits[i] <= shRetry.Max)
    /\ [][(shPc = "sending" /\ shPc' = "idle" /\ shRestarted' = shRestarted
                /\ shResp' \in Retryable) =>
             (shAttempts + 1 = MaxAttempts /\ shBatch \subseteq queue')]_vars

\* C38: two workers processing matching events of one (rule_id, group_key)
\* concurrently: a worker's replace removes from the window only events it
\* read itself (no event the other worker stored meanwhile is lost), and
\* when both workers are done the number of WindowMatches is the number of
\* events divided by the threshold (T events give exactly one match).
C38_AtomicPerEvent ==
    /\ [][\A w \in ConcWorkers :
            (cwPc[w] = "read" /\ cwPc'[w] = "idle") =>
                (Range(cwWindows[ConcBucket]) \ Range(cwWindows'[ConcBucket]))
                    \subseteq Range(cwRecent[w])]_vars
    /\ []((\A w \in ConcWorkers : cwPc[w] = "idle") =>
             cwMatches = (cwN[1] + cwN[2]) \div ConcRule.Threshold)

\* C39: every pattern a baseline Process call recorded as first-seen has
\* its BaselineMatch in what the call returns, also when the call returns
\* an error because a later rule failed.
C39_FirstSeenReturned ==
    (lpPc = "done" /\ lpKind = "baseline") => lpSeen \subseteq Range(lpRet.matches)

\* C40 (as stated): two signals have the same id if and only if they agree
\* on rule_id, host_id, identifier and the timestamp truncated to whole
\* seconds.
C40_SameIdIffSameValues ==
    gidIDs # <<>> => ((gidIDs[1] = gidIDs[2]) <=> SameValues(gidArgs[1], gidArgs[2]))

\* C40 (amended): signals that agree on the four values have the same id;
\* signals with the same id agree on the four values when neither rule id
\* nor host id contains the separator "|".
C40_SameIdIffSameValuesNoBar ==
    gidIDs # <<>> =>
        /\ SameValues(gidArgs[1], gidArgs[2]) => gidIDs[1] = gidIDs[2]
        /\ (/\ gidIDs[1] = gidIDs[2]
            /\ \A i \in 1..2 : ~HasBar(gidArgs[i].ruleID) /\ ~HasBar(gidArgs[i].host))
              => SameValues(gidArgs[1], gidArgs[2])

\* two calls that differ in the instant only, within one second, with an
\* identifier that contains the separator, got the same id
C40_Witness ==
    /\ gidIDs # <<>>
    /\ gidIDs[1] = gidIDs[2]
    /\ gidArgs[1].ts # gidArgs[2].ts
    /\ HasBar(gidArgs[1].identifier)
    /\ ~HasBar(gidArgs[1].ruleID)
    /\ ~HasBar(gidArgs[1].host)
    /\ SameValues(gidArgs[1], gidArgs[2])

====
